---- MODULE Spec2Model ----
(***************************************************************************)
(* Model of the background script of the Browser Activity Monitor          *)
(* extension (class BrowserActivityMonitor).                               *)
(*                                                                         *)
(* The three webRequest listeners (handleRequest, handleResponse,          *)
(* handleCompleted) are async functions.  JavaScript runs one of them      *)
(* until its next await on a host API (chrome.tabs.get,                    *)
(* chrome.storage.local, an IndexedDB request); another event or another   *)
(* handler's continuation may run in between.  Each action below is one    *)
(* such run-to-await segment.  A storage or database operation takes       *)
(* effect when it is issued (operations of one context are applied in      *)
(* issue order); the continuation that awaits its reply runs at any later  *)
(* time.  An await on a function that touches no host API                  *)
(* (getResponseBody) resumes in the same segment.                          *)
(***************************************************************************)
EXTENDS Integers, Sequences, FiniteSets, TLC

(***************************************************************************)
(* Bounds of the model.                                                    *)
(***************************************************************************)
\* number of webRequest events delivered in one behaviour
MaxEvents == 3

\* number of times the background process is started again in one behaviour
MaxRestarts == 1

\* number of webRequest events delivered while monitoring is stopped
MaxGated == 1

\* number of records stored in one long run
MaxStores == 1002

\* number of times the analytics page loads its data in one long run
MaxLoads == 1

\* number of clicks in the popup in one behaviour
MaxClicks == 2

\* number of records stored in one behaviour of the popup
MaxRecords == 2

\* the number of calls of AnalyticsPage.loadAnalytics that are followed
MaxCalls == 2

\* the number of control messages that are followed
MaxMessages == 2

\* the largest maxRetries sendMessageWithRetry is called with
MaxRetriesTried == 7

\* correlation keys (details.requestId) in play
Keys == {"r1", "r2"}

(***************************************************************************)
(* JavaScript values.  A value is a tagged tuple, so that values of        *)
(* different JavaScript types can be compared.                             *)
(***************************************************************************)
Undefined == <<"undefined">>
Null == <<"null">>
NaN == <<"nan">>
Num(n) == <<"num", n>>
Str(s) == <<"str", s>>
Arr(a) == <<"arr", a>>
\* JSON.stringify of an array of {name, value} headers: the text is modelled
\* by the array it encodes, tagged as a string
JsonText(a) == <<"json", a>>
\* Date.toISOString() of the instant t
IsoString(t) == <<"iso", t>>

\* JavaScript truthiness (the operand of ||, ?: and if)
Truthy(v) == v \notin {Undefined, Null, NaN, Num(0), Str("")}

\* a || b
OrElse(a, b) == IF Truthy(a) THEN a ELSE b

\* String.prototype.toLowerCase on the header names and the domains that occur
ToLowerCase(s) ==
  CASE s = "Example.COM" -> "example.com"
    [] s = "Content-Type" -> "content-type"
    [] s = "Content-Length" -> "content-length"
    [] s = "User-Agent" -> "user-agent"
    [] s = "Referer" -> "referer"
    [] s = "Cookie" -> "cookie"
    [] s = "Server" -> "server"
    [] OTHER -> s

\* parseInt on the strings that occur
ParseInt(v) ==
  CASE v = Str("1024") -> Num(1024)
    [] v = Str("0") -> Num(0)
    [] v = Str("8080") -> Num(8080)
    [] OTHER -> NaN

(***************************************************************************)
(* new URL(url): the parse of each URL that occurs.  ok = FALSE is the     *)
(* TypeError thrown for a string that is no URL.  protocol is the scheme   *)
(* with its colon, port is "" for the scheme's default port, pathname is   *)
(* given by its '/'-separated segments (pathname.split('/')).              *)
(***************************************************************************)
NewURL(url) ==
  CASE url = Str("https://example.com/a.js") ->
         [ok |-> TRUE, protocol |-> "https:", hostname |-> "example.com",
          port |-> Str(""), segments |-> <<"", "a.js">>]
    [] url = Str("https://example.com/b") ->
         [ok |-> TRUE, protocol |-> "https:", hostname |-> "example.com",
          port |-> Str(""), segments |-> <<"", "b">>]
    [] url = Str("http://tracker.net:8080/") ->
         [ok |-> TRUE, protocol |-> "http:", hostname |-> "tracker.net",
          port |-> Str("8080"), segments |-> <<"", "">>]
    [] OTHER ->
         [ok |-> FALSE, protocol |-> "", hostname |-> "",
          port |-> Str(""), segments |-> <<>>]

\* protocol.replace(':', '')
StripColon(p) ==
  CASE p = "https:" -> "https"
    [] p = "http:" -> "http"
    [] OTHER -> p

extractProtocol(url) ==
  IF NewURL(url).ok THEN Str(StripColon(NewURL(url).protocol)) ELSE Str("unknown")

\* a port that falls back to 80 for every URL
DefaultPort(url) == Num(80)

extractPort(url) ==
  LET u == NewURL(url) IN
  IF ~u.ok THEN Null
  ELSE IF Truthy(u.port) THEN ParseInt(u.port)
  ELSE IF u.protocol = "https:" THEN Num(443) ELSE Num(80)

extractFilename(url) ==
  LET u == NewURL(url) IN
  IF ~u.ok THEN Str("")
  ELSE OrElse(Str(u.segments[Len(u.segments)]), Str(""))

extractDomain(url) ==
  IF NewURL(url).ok THEN NewURL(url).hostname ELSE "unknown"

\* headers.find(h => h.name.toLowerCase() === name.toLowerCase())
RECURSIVE FindHeader(_, _)
FindHeader(headers, name) ==
  IF headers = <<>> THEN <<>>
  ELSE IF ToLowerCase(Head(headers).name) = ToLowerCase(name) THEN <<Head(headers)>>
  ELSE FindHeader(Tail(headers), name)

getHeaderValue(headers, name) ==
  IF headers[1] # "arr" THEN Str("")
  ELSE IF FindHeader(headers[2], name) = <<>> THEN Str("")
  ELSE Str(FindHeader(headers[2], name)[1].value)

(***************************************************************************)
(* Objects.  An object is a function from its property names to values; a  *)
(* property that was never set is not in its domain.                       *)
(***************************************************************************)
\* obj.f
Prop(obj, f) == IF f \in DOMAIN obj THEN obj[f] ELSE Undefined

\* { ...a, ...b }
Spread(a, b) ==
  [f \in DOMAIN a \cup DOMAIN b |-> IF f \in DOMAIN b THEN b[f] ELSE a[f]]

(***************************************************************************)
(* Events delivered by chrome.webRequest.  Each key has its own details,   *)
(* so that a value found in a record tells which key's event supplied it.  *)
(***************************************************************************)
\* details of onBeforeRequest
BeforeRequestDetails(k) ==
  IF k = "r1"
  THEN {[requestId |-> k, url |-> Str("https://example.com/a.js"), method |-> Str("GET"),
         tabId |-> Num(7), frameId |-> Num(fr), requestHeaders |-> Undefined]
          : fr \in {0, 1}}
  ELSE {[requestId |-> k, url |-> Str("http://tracker.net:8080/"), method |-> Str("POST"),
         tabId |-> Num(0), frameId |-> Num(1), requestHeaders |-> Undefined],
        [requestId |-> k, url |-> Str("not a url"), method |-> Undefined,
         tabId |-> Num(9), frameId |-> Num(2), requestHeaders |-> Undefined]}

\* details of onHeadersReceived
HeadersReceivedDetails(k) ==
  IF k = "r1"
  THEN {[requestId |-> k, statusCode |-> Num(200), statusLine |-> Str("HTTP/1.1 200 OK"),
         responseHeaders |->
           Arr(<<[name |-> "Content-Type", value |-> "text/html; charset=utf-8"],
                 [name |-> "Content-Length", value |-> "1024"]>>)]}
  ELSE {[requestId |-> k, statusCode |-> Num(404), statusLine |-> Str("HTTP/1.1 404 Not Found"),
         responseHeaders |->
           Arr(<<[name |-> "content-length", value |-> "abc"],
                 [name |-> "Server", value |-> "nginx"]>>)]}

\* details of onCompleted
CompletedDetails(k) ==
  IF k = "r1"
  THEN {[requestId |-> k,
         requestHeaders |-> Arr(<<[name |-> "User-Agent", value |-> "UA1"]>>)]}
  ELSE {[requestId |-> k,
         requestHeaders |-> Arr(<<[name |-> "user-agent", value |-> "UA2"],
                                  [name |-> "Cookie", value |-> "c=2"]>>)]}

\* results of chrome.tabs.get(tabId).windowId; getWindowId returns null when
\* the lookup throws
WindowIds == {Num(3), Null}

\* domains the popup asks to disable or enable
DomainInputs == {"example.com"}

\* what the user types into the popup's domain field
DomainInputValues == {"example.com", " Example.COM", "   "}

\* String.prototype.trim on the inputs that occur
Trim(s) ==
  CASE s = " Example.COM" -> "Example.COM"
    [] s = "   " -> ""
    [] OTHER -> s

(***************************************************************************)
(* State.                                                                  *)
(***************************************************************************)
VARIABLES
  isMonitoring,     \* this.isMonitoring
  disabledDomains,  \* this.disabledDomains, a Set in insertion order
  storage,          \* chrome.storage.local: key -> value, for the keys present
  db,               \* object store network_requests, in the order of the adds
  nextId,           \* its autoIncrement key generator
  backup,           \* localStorage item browserActivityData (parsed)
  handlers,         \* invocations of the listeners suspended at an await
  boot,             \* the position of init(), and what its await will return
  restarts,         \* the number of times the process was started again
  hist,             \* history: per key, the events delivered with monitoring on
  dbBy,             \* history: the event (key, number) behind each record of db,
                    \* the run of the process that stored it, and the
                    \* monitoring gate when it did
  addFailed,        \* history: the keys for which a store.add failed
  tally,            \* history: phase-3 events delivered to a live pending record,
                    \* their inserts that failed, their handlers lost in a restart
  pushed,           \* history: the records saveToLocalStorageBackup has written
  page,             \* the analytics page: the position of loadAnalytics
  loads,            \* the number of times loadAnalytics was started
  gated,            \* history: the events delivered while monitoring was stopped
  popup,            \* the popup: the position of its click handler, what it
                    \* showed last and the file the browser saved last
  messages          \* the chrome.runtime messages sent to the onMessage
                    \* listener, each with the responses its sender received

vars ==
  <<isMonitoring, disabledDomains, storage, db, nextId, backup, handlers, boot, restarts,
    hist, dbBy, addFailed, tally, pushed, page, loads, gated, popup, messages>>

\* capacity of the localStorage backup
BackupCapacity == 1000

\* the popup before its first click: no message shown, no file saved, the
\* list of disabled domains empty
PopupOpened == [pc |-> "idle", clicks |-> 0, shown |-> "", saved |-> <<>>, domains |-> <<>>]

\* events handled so far (an event dropped at the monitoring gate leaves no
\* trace and is not counted); also the reading of the clock
nEvents == Len(hist["r1"]) + Len(hist["r2"])

now == nEvents

\* the number of the next event of key k, among the events of that key
NextNo(k) == Len(hist[k]) + 1

(***************************************************************************)
(* chrome.storage.local                                                    *)
(***************************************************************************)
\* a storage key that leaves the request id out
SharedStorageKey(requestId) == "req_"

\* the storage key of a request's temporary data: `req_${requestId}`
StorageKey(requestId) == "req_" \o requestId

\* chrome.storage.local.get([key])[key], as an option: <<>> when absent
StorageGet(key) == IF key \in DOMAIN storage THEN <<storage[key]>> ELSE <<>>

\* the store after chrome.storage.local.set({[key]: value})
StorageSet(st, key, value) ==
  [x \in DOMAIN st \cup {key} |-> IF x = key THEN value ELSE st[x]]

\* the store after chrome.storage.local.remove([key])
StorageRemove(st, key) == [x \in DOMAIN st \ {key} |-> st[x]]

\* storeRequestData(requestId, data)
storeRequestData(st, requestId, data) == StorageSet(st, StorageKey(requestId), data)

\* getRequestData(requestId)
getRequestData(requestId) == StorageGet(StorageKey(requestId))

\* cleanupRequestData(requestId)
cleanupRequestData(st, requestId) == StorageRemove(st, StorageKey(requestId))

\* the keys with a pending record in the temporary store
Pending == {k \in Keys : getRequestData(k) # <<>>}

(***************************************************************************)
(* The objects the handlers build.                                         *)
(***************************************************************************)
\* a gate that lets every event pass
GateIgnored(monitoring) == TRUE

\* the gate at the top of the three handlers: if (!this.isMonitoring) return
PassesGate(monitoring) == monitoring

\* a filter that excludes nothing
NothingDisabled(domain) == FALSE

\* this.disabledDomains.has(domain)
IsDisabled(domain) == \E i \in 1..Len(disabledDomains) : disabledDomains[i] = domain

\* requestData of handleRequest
RequestData(d, windowId, t) ==
  [method |-> OrElse(d.method, Str("UNKNOWN")),
   protocol |-> extractProtocol(d.url),
   port |-> extractPort(d.url),
   url |-> OrElse(d.url, Str("")),
   filename |-> extractFilename(d.url),
   domain |-> Str(extractDomain(d.url)),
   tab_id |-> OrElse(d.tabId, Num(-1)),
   window_id |-> windowId,
   request_headers |-> JsonText(OrElse(d.requestHeaders, Arr(<<>>))),
   timestamp |-> IsoString(t)]

\* responseData of handleResponse
ResponseData(d) ==
  LET responseHeaders == OrElse(d.responseHeaders, Arr(<<>>)) IN
  [response_code |-> OrElse(d.statusCode, Num(0)),
   response_message |-> OrElse(d.statusLine, Str("")),
   content_type |-> getHeaderValue(responseHeaders, "content-type"),
   content_length |-> OrElse(ParseInt(getHeaderValue(responseHeaders, "content-length")), Num(0)),
   server |-> getHeaderValue(responseHeaders, "server"),
   date |-> getHeaderValue(responseHeaders, "date"),
   location |-> getHeaderValue(responseHeaders, "location"),
   vary |-> getHeaderValue(responseHeaders, "vary"),
   response_headers |-> JsonText(responseHeaders)]

\* additionalHeaders of handleCompleted
AdditionalHeaders(d) ==
  LET requestHeaders == OrElse(d.requestHeaders, Arr(<<>>)) IN
  [user_agent |-> getHeaderValue(requestHeaders, "user-agent"),
   referer |-> getHeaderValue(requestHeaders, "referer"),
   origin |-> getHeaderValue(requestHeaders, "origin"),
   cookie |-> getHeaderValue(requestHeaders, "cookie"),
   x_forwarded_for |-> getHeaderValue(requestHeaders, "x-forwarded-for")]

\* a lookup that finds the body of every response
BodyFound(requestId) == Str("<!DOCTYPE html>")

\* getResponseBody(requestId): always null
getResponseBody(requestId) == Null

\* completeData of handleCompleted: the pending record, the additional
\* headers and, when there is a response body, its preview and checksum
CompleteData(requestData, d) ==
  LET merged == Spread(requestData, AdditionalHeaders(d)) IN
  IF Truthy(getResponseBody(d.requestId))
  THEN Spread(merged, [response_preview |-> Str("body-prefix"),
                       response_checksum |-> Str("sha256-hex")])
  ELSE merged

\* the fields of a stored record, in the order storeCompleteRequest lists them
RecordFields ==
  <<"method", "protocol", "port", "url", "filename", "domain", "user_agent", "referer",
    "origin", "cookie", "vary", "x_forwarded_for", "content_type", "response_code",
    "response_message", "date", "server", "content_length", "location",
    "response_preview", "response_checksum", "tab_id", "window_id", "request_headers",
    "response_headers", "timestamp">>

FieldSet == {RecordFields[i] : i \in 1..Len(RecordFields)}

\* a record whose missing fields are zero
ZeroWhenAbsent(data) == [f \in FieldSet |-> IF f \in DOMAIN data THEN data[f] ELSE Num(0)]

\* a record that has only the fields its data has
OwnFieldsOnly(data) == data

\* requestData of storeCompleteRequest: every field read from data, undefined
\* when data lacks it
StoredRecord(data) == [f \in FieldSet |-> Prop(data, f)]

\* the record the object store holds after store.add: the key generator's
\* value is written to the keyPath 'id'
WithId(rec, id) == [f \in DOMAIN rec \cup {"id"} |-> IF f = "id" THEN Num(id) ELSE rec[f]]

\* JSON.parse(JSON.stringify(obj)): a property whose value is undefined is dropped
JsonRoundTrip(obj) == [f \in {g \in DOMAIN obj : obj[g] # Undefined} |-> obj[f]]

\* a ring cut at the back: the oldest records stay
KeepFirst(s, capacity) == IF Len(s) > capacity THEN SubSeq(s, 1, capacity) ELSE s

\* existingData.splice(0, existingData.length - capacity) when longer
KeepLast(s, capacity) ==
  IF Len(s) > capacity THEN SubSeq(s, Len(s) - capacity + 1, Len(s)) ELSE s

\* saveToLocalStorageBackup(data): the item after the call; a throwing
\* localStorage (ok = FALSE) is caught and leaves the item as it was
saveToLocalStorageBackup(item, data, ok) ==
  LET existingData == KeepLast(Append(item, data), BackupCapacity) IN
  IF ok
  THEN [j \in 1..Len(existingData) |-> JsonRoundTrip(existingData[j])]
  ELSE item

\* insert rec into a sequence of records sorted by their id
RECURSIVE InsertById(_, _)
InsertById(sorted, rec) ==
  IF sorted = <<>> THEN <<rec>>
  ELSE IF rec.id[2] < Head(sorted).id[2] THEN <<rec>> \o sorted
  ELSE <<Head(sorted)>> \o InsertById(Tail(sorted), rec)

\* the records of an object store in the order of their keys
RECURSIVE InKeyOrder(_)
InKeyOrder(records) ==
  IF \A i \in 1..(Len(records) - 1) : records[i].id[2] < records[i + 1].id[2] THEN records
  ELSE InsertById(InKeyOrder(SubSeq(records, 1, Len(records) - 1)), records[Len(records)])

\* a listing that starts with the newest record
RECURSIVE NewestFirst(_)
NewestFirst(records) ==
  IF records = <<>> THEN <<>> ELSE <<records[Len(records)]>> \o NewestFirst(SubSeq(records, 1, Len(records) - 1))

\* getAllData(): store.getAll() resolves with every record, in key order
getAllData(records) == InKeyOrder(records)

(***************************************************************************)
(* Initial state: a fresh install, the constructor has run: nothing is     *)
(* persisted, monitoring is enabled by default, and init() is suspended at *)
(* the await of createIndexedDB.                                           *)
(***************************************************************************)
Init ==
  /\ isMonitoring = TRUE
  /\ disabledDomains = <<>>
  /\ storage = <<>>
  /\ db = <<>>
  /\ nextId = 1
  /\ backup = <<>>
  /\ handlers = {}
  /\ boot = [pc |-> "open"]
  /\ restarts = 0
  /\ hist = [k \in Keys |-> <<>>]
  /\ dbBy = <<>>
  /\ addFailed = {}
  /\ tally = [live |-> 0, failed |-> 0, lost |-> 0]
  /\ pushed = <<>>
  /\ page = [pc |-> "idle"]
  /\ loads = 0
  /\ gated = 0
  /\ popup = PopupOpened
  /\ messages = <<>>

\* the members of the Set of disabled domains
ExcludedSet == {disabledDomains[i] : i \in 1..Len(disabledDomains)}

\* what an event that passed the monitoring gate met on delivery: for
\* phase 1 a domain in the excluded set ("excluded"), or not ("ok")
Met(ph, d) ==
  IF ph = 1 /\ extractDomain(d.url) \in ExcludedSet THEN "excluded" ELSE "ok"

\* the history after the delivery of the event of phase ph with details d for
\* key k; the events of a key are numbered by their place in its history
Delivered(k, ph, d) == [hist EXCEPT ![k] = Append(@, [phase |-> ph, res |-> Met(ph, d)])]

\* the count of the events delivered while monitoring was stopped, after the
\* delivery of one more event
Counted == IF isMonitoring THEN gated ELSE gated + 1

\* an invocation suspended at an await
Suspended(k, ph, pc, d, snap) ==
  [id |-> NextNo(k), key |-> k, phase |-> ph, pc |-> pc, d |-> d, snap |-> snap]

(***************************************************************************)
(* handleRequest (onBeforeRequest), up to its first await.  For a main     *)
(* frame request (frameId 0) that is the await of getWindowId, inside the  *)
(* object literal; otherwise the record is built and storeRequestData is   *)
(* called at once.                                                         *)
(***************************************************************************)
handleRequest(k, d) ==
  /\ boot.pc = "ready"
  /\ nEvents < MaxEvents
  /\ isMonitoring \/ gated < MaxGated
  /\ gated' = Counted
  /\ IF ~PassesGate(isMonitoring)
     THEN UNCHANGED <<storage, handlers, hist>>
     ELSE IF IsDisabled(extractDomain(d.url))
     THEN /\ hist' = Delivered(k, 1, d)
          /\ UNCHANGED <<storage, handlers>>
     ELSE IF d.frameId = Num(0)
     THEN /\ hist' = Delivered(k, 1, d)
          /\ handlers' = handlers \cup {Suspended(k, 1, "windowId", d, <<>>)}
          /\ UNCHANGED storage
     ELSE /\ hist' = Delivered(k, 1, d)
          /\ storage' = storeRequestData(storage, d.requestId, RequestData(d, Null, now))
          /\ UNCHANGED handlers
  /\ UNCHANGED <<isMonitoring, disabledDomains, db, nextId, backup, dbBy, addFailed, boot, restarts, tally,
                 pushed, page, loads, popup, messages>>

\* handleRequest resumed with the window id w: the rest of the object
\* literal (request_headers, timestamp) and storeRequestData
ResumeRequest(h, w) ==
  /\ h.phase = 1 /\ h.pc = "windowId"
  /\ storage' = storeRequestData(storage, h.d.requestId, RequestData(h.d, w, now))
  /\ handlers' = handlers \ {h}
  /\ UNCHANGED <<isMonitoring, disabledDomains, db, nextId, backup, hist, dbBy, addFailed, boot, restarts, tally, pushed, page, loads, gated, popup, messages>>

(***************************************************************************)
(* handleResponse (onHeadersReceived) and updateRequestData.               *)
(***************************************************************************)
\* up to the await of getRequestData inside updateRequestData
handleResponse(k, d) ==
  /\ boot.pc = "ready"
  /\ nEvents < MaxEvents
  /\ isMonitoring \/ gated < MaxGated
  /\ gated' = Counted
  /\ IF ~PassesGate(isMonitoring)
     THEN UNCHANGED <<handlers, hist>>
     ELSE /\ hist' = Delivered(k, 2, d)
          /\ handlers' = handlers \cup {Suspended(k, 2, "get", d, getRequestData(d.requestId))}
  /\ UNCHANGED <<isMonitoring, disabledDomains, storage, db, nextId, backup, dbBy, addFailed, boot, restarts,
                 tally, pushed, page, loads, popup, messages>>

\* the store after the rest of updateRequestData(requestId, data), existing
\* being what its getRequestData returned
updateRequestData(st, requestId, existing, data) ==
  IF existing # <<>>
  THEN StorageSet(st, StorageKey(requestId), Spread(existing[1], data))
  ELSE st

ResumeResponse(h) ==
  /\ h.phase = 2 /\ h.pc = "get"
  /\ storage' = updateRequestData(storage, h.d.requestId, h.snap, ResponseData(h.d))
  /\ handlers' = handlers \ {h}
  /\ UNCHANGED <<isMonitoring, disabledDomains, db, nextId, backup, hist, dbBy, addFailed, boot, restarts, tally, pushed, page, loads, gated, popup, messages>>

(***************************************************************************)
(* handleCompleted (onCompleted).                                          *)
(***************************************************************************)
\* up to the await of getRequestData
handleCompleted(k, d) ==
  /\ boot.pc = "ready"
  /\ nEvents < MaxEvents
  /\ isMonitoring \/ gated < MaxGated
  /\ gated' = Counted
  /\ IF ~PassesGate(isMonitoring)
     THEN UNCHANGED <<handlers, hist, tally>>
     ELSE /\ hist' = Delivered(k, 3, d)
          /\ handlers' = handlers \cup {Suspended(k, 3, "get", d, getRequestData(d.requestId))}
          /\ tally' = IF getRequestData(d.requestId) # <<>>
                      THEN [tally EXCEPT !.live = @ + 1] ELSE tally
  /\ UNCHANGED <<isMonitoring, disabledDomains, storage, db, nextId, backup, dbBy, addFailed, boot, restarts,
                 pushed, page, loads, popup, messages>>

\* a handler that never finds a record to store
NeverStores(requestData) == FALSE

\* whether handleCompleted stores a record for what getRequestData returned
HasRequestData(requestData) == requestData # <<>>

\* resumed with requestData: when there is a record, merge, look for the body
\* and call storeCompleteRequest, whose store.add is applied here and either
\* succeeds (added) or fails; when there is none, go on to cleanupRequestData
ResumeCompleted(h, added) ==
  /\ h.phase = 3 /\ h.pc = "get"
  /\ IF HasRequestData(h.snap)
     THEN /\ IF added
             THEN /\ db' = Append(db, WithId(StoredRecord(CompleteData(h.snap[1], h.d)), nextId))
                  /\ nextId' = nextId + 1
                  /\ dbBy' = Append(dbBy, [key |-> h.key, n |-> h.id, run |-> restarts, gate |-> isMonitoring])
                  /\ handlers' = (handlers \ {h}) \cup {[h EXCEPT !.pc = "onsuccess"]}
                  /\ UNCHANGED <<addFailed, tally>>
             ELSE /\ handlers' = (handlers \ {h}) \cup {[h EXCEPT !.pc = "onerror"]}
                  /\ addFailed' = addFailed \cup {h.key}
                  /\ tally' = [tally EXCEPT !.failed = @ + 1]
                  /\ UNCHANGED <<db, nextId, dbBy>>
          /\ UNCHANGED storage
     ELSE /\ added
          /\ storage' = cleanupRequestData(storage, h.d.requestId)
          /\ handlers' = handlers \ {h}
          /\ UNCHANGED <<db, nextId, dbBy, addFailed, tally>>
  /\ UNCHANGED <<isMonitoring, disabledDomains, backup, hist, boot, restarts, pushed, page, loads, gated, popup, messages>>

\* a last segment without the cleanup
NoCleanup(st, requestId, resolved) == st

\* the store after handleCompleted's last segment: cleanupRequestData when
\* storeCompleteRequest resolved, nothing when it rejected (the catch block
\* only logs)
AfterStore(st, requestId, resolved) ==
  IF resolved THEN cleanupRequestData(st, requestId) ELSE st

\* request.onsuccess of store.add: the backup, resolve, then the cleanup
CompletedStored(h, backupOk) ==
  /\ h.phase = 3 /\ h.pc = "onsuccess"
  /\ backup' = saveToLocalStorageBackup(backup, StoredRecord(CompleteData(h.snap[1], h.d)), backupOk)
  /\ pushed' = IF backupOk THEN Append(pushed, StoredRecord(CompleteData(h.snap[1], h.d))) ELSE pushed
  /\ storage' = AfterStore(storage, h.d.requestId, TRUE)
  /\ handlers' = handlers \ {h}
  /\ UNCHANGED <<isMonitoring, disabledDomains, db, nextId, hist, dbBy, addFailed, boot, restarts, tally,
                 page, loads, gated, popup, messages>>

\* what the promise of handleCompleted resolves with for its caller, given
\* whether store.add succeeded and whether the backup was written: the
\* function has no return statement, its catch block and the one of
\* saveToLocalStorageBackup only write to the console
handleCompletedReturns(stored, backedUp) == Undefined

\* request.onerror of store.add: reject, caught by handleCompleted
CompletedFailed(h) ==
  /\ h.phase = 3 /\ h.pc = "onerror"
  /\ storage' = AfterStore(storage, h.d.requestId, FALSE)
  /\ handlers' = handlers \ {h}
  /\ UNCHANGED <<isMonitoring, disabledDomains, db, nextId, backup, hist, dbBy, addFailed, boot, restarts, tally, pushed, page, loads, gated, popup, messages>>

(***************************************************************************)
(* The popup's controls.                                                   *)
(***************************************************************************)
\* a control that flips the gate
Toggled(monitoring) == ~monitoring

\* this.isMonitoring after startMonitoring()
AfterStart(monitoring) == TRUE

\* this.isMonitoring after stopMonitoring()
AfterStop(monitoring) == FALSE

startMonitoring ==
  /\ isMonitoring' = AfterStart(isMonitoring)
  /\ UNCHANGED <<disabledDomains, storage, db, nextId, backup, handlers, hist, dbBy, addFailed, boot, restarts, tally, pushed, page, loads, gated, popup, messages>>

stopMonitoring ==
  /\ isMonitoring' = AfterStop(isMonitoring)
  /\ UNCHANGED <<disabledDomains, storage, db, nextId, backup, handlers, hist, dbBy, addFailed, boot, restarts, tally, pushed, page, loads, gated, popup, messages>>

\* an add that does not look for the member
AppendAlways(s, x) == Append(s, x)

\* Set.prototype.add
SetAdd(s, x) == IF \E i \in 1..Len(s) : s[i] = x THEN s ELSE Append(s, x)

\* Set.prototype.delete
SetDelete(s, x) == SelectSeq(s, LAMBDA y : y # x)

\* disableDomain(domain): add to the set, then saveDisabledDomains
disableDomain(domain) ==
  /\ disabledDomains' = SetAdd(disabledDomains, domain)
  /\ storage' = StorageSet(storage, "disabledDomains", disabledDomains')
  /\ UNCHANGED <<isMonitoring, db, nextId, backup, handlers, hist, dbBy, addFailed, boot, restarts, tally, pushed, page, loads, gated, popup, messages>>

\* enableDomain(domain): delete from the set, then saveDisabledDomains
enableDomain(domain) ==
  /\ disabledDomains' = SetDelete(disabledDomains, domain)
  /\ storage' = StorageSet(storage, "disabledDomains", disabledDomains')
  /\ UNCHANGED <<isMonitoring, db, nextId, backup, handlers, hist, dbBy, addFailed, boot, restarts, tally, pushed, page, loads, gated, popup, messages>>

(***************************************************************************)
(* Start-up.  init() awaits initDatabase and loadDisabledDomains before it *)
(* registers the webRequest listeners; the onMessage listener is           *)
(* registered by the script itself and answers from the first moment.      *)
(***************************************************************************)
\* a key generator that starts again with every open of the database
KeyGeneratorRecreated(g) == 1

\* the key generator of the object store after indexedDB.open: the store is
\* created only when the database does not contain it, so an existing store
\* and its generator are kept as they are
KeyGeneratorAfterOpen(g) == g

\* new Set(array)
RECURSIVE NewSet(_)
NewSet(a) == IF a = <<>> THEN <<>> ELSE SetAdd(NewSet(SubSeq(a, 1, Len(a) - 1)), a[Len(a)])

\* the database is open: createTables, then loadDisabledDomains up to the
\* await of chrome.storage.local.get
createIndexedDB ==
  /\ boot.pc = "open"
  /\ nextId' = KeyGeneratorAfterOpen(nextId)
  /\ boot' = [pc |-> "load", result |-> StorageGet("disabledDomains")]
  /\ UNCHANGED <<isMonitoring, disabledDomains, storage, db, backup, handlers, restarts,
                 hist, dbBy, addFailed, tally, pushed, page, loads, gated, popup, messages>>

\* loadDisabledDomains resumed with the result of the get, then
\* setupEventListeners
loadDisabledDomains ==
  /\ boot.pc = "load"
  /\ disabledDomains' = IF boot.result # <<>> THEN NewSet(boot.result[1]) ELSE disabledDomains
  /\ boot' = [pc |-> "ready"]
  /\ UNCHANGED <<isMonitoring, storage, db, nextId, backup, handlers, restarts,
                 hist, dbBy, addFailed, tally, pushed, page, loads, gated, popup, messages>>

\* the browser ends the background process and starts it again: what is in
\* memory is lost with the invocations in progress, what is persisted stays,
\* and the constructor runs
Restart ==
  /\ restarts < MaxRestarts
  /\ restarts' = restarts + 1
  /\ isMonitoring' = TRUE
  /\ disabledDomains' = <<>>
  /\ handlers' = {}
  /\ boot' = [pc |-> "open"]
  /\ tally' = [tally EXCEPT !.lost = @ + Cardinality({h \in handlers :
                                   h.phase = 3 /\ h.pc = "get" /\ h.snap # <<>>})]
  /\ UNCHANGED <<storage, db, nextId, backup, hist, dbBy, addFailed, pushed, page, loads, gated, popup, messages>>

\* the steps of init()
Startup == createIndexedDB \/ loadDisabledDomains

(***************************************************************************)
(* The specification.                                                      *)
(***************************************************************************)
\* the continuations of suspended invocations: the steps the event loop takes
\* on its own once the awaited reply is there
Resume ==
  \/ \E h \in handlers, w \in WindowIds : ResumeRequest(h, w)
  \/ \E h \in handlers : ResumeResponse(h)
  \/ \E h \in handlers, added \in BOOLEAN : ResumeCompleted(h, added)
  \/ \E h \in handlers, backupOk \in BOOLEAN : CompletedStored(h, backupOk)
  \/ \E h \in handlers : CompletedFailed(h)

Next ==
  \/ \E k \in Keys : \E d \in BeforeRequestDetails(k) : handleRequest(k, d)
  \/ \E k \in Keys : \E d \in HeadersReceivedDetails(k) : handleResponse(k, d)
  \/ \E k \in Keys : \E d \in CompletedDetails(k) : handleCompleted(k, d)
  \/ Resume
  \/ createIndexedDB
  \/ loadDisabledDomains
  \/ Restart
  \/ startMonitoring
  \/ stopMonitoring
  \/ \E domain \in DomainInputs : disableDomain(domain)
  \/ \E domain \in DomainInputs : enableDomain(domain)

Spec == Init /\ [][Next]_vars

\* the event loop runs every continuation whose reply has arrived; nothing
\* obliges the browser to deliver further events or the user to act
FairSpec == Spec /\ WF_vars(Resume) /\ WF_vars(Startup)

(***************************************************************************)
(* A long run of the record store, the backup and the analytics page: the  *)
(* finalized records are handed to storeCompleteRequest one after the      *)
(* other, and the analytics page loads its data now and then.  The         *)
(* capacity of the backup is reached only in such a run.                   *)
(***************************************************************************)
\* the finalized data of the n-th request: what the three handlers build for
\* one of the requests above, with the clock reading n
LongRunData(n) ==
  LET k == IF n % 2 = 0 THEN "r1" ELSE "r2"
      d1 == CHOOSE d \in BeforeRequestDetails(k) : d.frameId # Num(2)
      d2 == CHOOSE d \in HeadersReceivedDetails(k) : TRUE
      d3 == CHOOSE d \in CompletedDetails(k) : TRUE
      w == IF d1.frameId = Num(0) THEN Num(3) ELSE Null
  IN  IF n % 3 = 0
      THEN CompleteData(RequestData(d1, Null, n), d3)
      ELSE CompleteData(Spread(RequestData(d1, w, n), ResponseData(d2)), d3)

\* storeCompleteRequest(data): store.add, whose onsuccess writes the backup
storeCompleteRequest(data) ==
  /\ Len(db) < MaxStores
  /\ db' = Append(db, WithId(StoredRecord(data), nextId))
  /\ nextId' = nextId + 1
  /\ dbBy' = Append(dbBy, [key |-> data.url, n |-> Len(db) + 1, run |-> restarts, gate |-> isMonitoring])
  /\ backup' = saveToLocalStorageBackup(backup, StoredRecord(data), TRUE)
  /\ pushed' = Append(pushed, StoredRecord(data))
  /\ UNCHANGED <<isMonitoring, disabledDomains, storage, handlers, boot, restarts, hist,
                 addFailed, tally, page, loads, gated, popup, messages>>

\* the numbers of stored records at which the user opens or refreshes the
\* analytics page: with the backup full, and with one record more
LoadPoints == {BackupCapacity, BackupCapacity + 1}

\* AnalyticsPage.saveToLocalStorage(data): the item after the call
saveToLocalStorage(item, data, ok) ==
  IF ok THEN [j \in 1..Len(data) |-> JsonRoundTrip(data[j])] ELSE item

\* loadAnalytics up to its first await: the guard, then the debugInfo message
loadAnalytics ==
  /\ page.pc = "idle"
  /\ loads < MaxLoads
  /\ Len(db) \in LoadPoints
  /\ page' = [pc |-> "debugInfo"]
  /\ loads' = loads + 1
  /\ UNCHANGED <<isMonitoring, disabledDomains, storage, db, nextId, backup, handlers, boot,
                 restarts, hist, dbBy, addFailed, tally, pushed, gated, popup, messages>>

\* the page has its debugInfo answer and sends exportData, which the
\* background answers with what getAllData() resolves with
exportData ==
  /\ page.pc = "debugInfo"
  /\ page' = [pc |-> "exportData", data |-> getAllData(db)]
  /\ UNCHANGED <<isMonitoring, disabledDomains, storage, db, nextId, backup, handlers, boot,
                 restarts, hist, dbBy, addFailed, tally, pushed, loads, gated, popup, messages>>

\* loadAnalytics resumed with the exportData response: data that is not
\* empty is saved to localStorage; without data the page reads the item
AnalyticsLoaded(ok) ==
  /\ page.pc = "exportData"
  /\ backup' = IF Len(page.data) > 0 THEN saveToLocalStorage(backup, page.data, ok) ELSE backup
  /\ page' = [pc |-> "idle"]
  /\ UNCHANGED <<isMonitoring, disabledDomains, storage, db, nextId, handlers, boot,
                 restarts, hist, dbBy, addFailed, tally, pushed, loads, gated, popup, messages>>

\* the number of records stored before the part of a long run that is
\* followed step by step: none, or two less than the backup holds
LongRunStarts == {0, BackupCapacity - 2}

\* init() has run, nothing but the records was ever persisted, and n records
\* have been stored and written to the backup (n below the capacity, so
\* that no record has left the backup yet); the run from the fresh install
\* passes through each of these states
LongRunInit ==
  /\ isMonitoring = TRUE
  /\ disabledDomains = <<>>
  /\ storage = <<>>
  /\ \E n \in LongRunStarts :
       /\ db = [i \in 1..n |-> WithId(StoredRecord(LongRunData(i - 1)), i)]
       /\ nextId = n + 1
       /\ backup = [i \in 1..n |-> JsonRoundTrip(StoredRecord(LongRunData(i - 1)))]
       /\ dbBy = [i \in 1..n |-> [key |-> LongRunData(i - 1).url, n |-> i, run |-> 0, gate |-> TRUE]]
       /\ pushed = [i \in 1..n |-> StoredRecord(LongRunData(i - 1))]
  /\ handlers = {}
  /\ boot = [pc |-> "ready"]
  /\ restarts = 0
  /\ hist = [k \in Keys |-> <<>>]
  /\ addFailed = {}
  /\ tally = [live |-> 0, failed |-> 0, lost |-> 0]
  /\ page = [pc |-> "idle"]
  /\ loads = 0
  /\ gated = 0
  /\ popup = PopupOpened
  /\ messages = <<>>

LongRunNext ==
  \/ storeCompleteRequest(LongRunData(Len(db)))
  \/ loadAnalytics
  \/ exportData
  \/ \E ok \in BOOLEAN : AnalyticsLoaded(ok)

LongRunSpec == LongRunInit /\ [][LongRunNext]_vars

(***************************************************************************)
(* The export formats.  A text is modelled by its parts: a CSV text by its *)
(* lines and their cells, a script by its statements and their values.     *)
(* The code escapes nothing, so a cell is the text of the value between    *)
(* two quote characters.                                                   *)
(***************************************************************************)
\* `${v}`: the string a template literal makes of a value
TemplateString(v) ==
  CASE v[1] = "num" -> Str(ToString(v[2]))
    [] v = Null -> Str("null")
    [] v = Undefined -> Str("undefined")
    [] v = NaN -> Str("NaN")
    [] OTHER -> v

\* a string between two quote characters q
Quoted(q, s) == <<"quoted", q, s>>

\* a string as it stands
Bare(s) == <<"bare", s>>

\* Object.keys(obj) of a record: its own properties in the order they were
\* created, the key path 'id' last
ObjectKeys(obj) == SelectSeq(RecordFields \o <<"id">>, LAMBDA f : f \in DOMAIN obj)

\* the value JSON.stringify writes for v: NaN becomes null
JsonValue(v) == IF v = NaN THEN Null ELSE v

\* the object JSON.stringify writes for obj: a property whose value is
\* undefined is left out
JsonObject(obj) == [f \in {g \in DOMAIN obj : obj[g] # Undefined} |-> JsonValue(obj[f])]

\* JSON.stringify(data, null, 2) of an array of records
JsonStringify(data) == JsonText([i \in 1..Len(data) |-> JsonObject(data[i])])

\* JSON.parse(text)
JsonParse(text) == text[2]

\* `"${row[header] || ''}"`
CsvCell(v) == Quoted("\"", TemplateString(OrElse(v, Str(""))))

\* convertToCSV(data): the empty string for no data, else the header line
\* and one line per row
convertToCSV(data) ==
  IF Len(data) = 0 THEN <<>>
  ELSE LET headers == ObjectKeys(data[1]) IN
       <<headers>> \o
       [i \in 1..Len(data) |->
          [j \in 1..Len(headers) |-> CsvCell(Prop(data[i], headers[j]))]]

\* the columns of the INSERT statement
InsertColumns ==
  <<"timestamp", "method", "protocol", "port", "url", "filename", "domain",
    "user_agent", "referer", "origin", "cookie", "vary", "x_forwarded_for",
    "content_type", "response_code", "response_message", "date", "server",
    "content_length", "location", "response_preview", "response_checksum",
    "tab_id", "window_id", "request_headers", "response_headers">>

\* the columns declared INTEGER and written without quotes
NumericColumns == {"port", "response_code", "content_length", "tab_id", "window_id"}

\* the columns written as '${record.x}', without a default
PlainColumns == {"timestamp", "method", "protocol", "url", "filename", "domain"}

\* the value the INSERT statement writes for column c of record
InsertValue(record, c) ==
  IF c \in NumericColumns THEN Bare(TemplateString(OrElse(Prop(record, c), Str("NULL"))))
  ELSE IF c \in PlainColumns THEN Quoted("'", TemplateString(Prop(record, c)))
  ELSE Quoted("'", TemplateString(OrElse(Prop(record, c), Str(""))))

\* the INSERT statement of one record
InsertSQL(record) ==
  [kind |-> "INSERT INTO network_requests", columns |-> InsertColumns,
   values |-> [j \in 1..Len(InsertColumns) |-> InsertValue(record, InsertColumns[j])]]

\* a script that writes its records last to first
RECURSIVE InsertsReversed(_)
InsertsReversed(data) ==
  IF data = <<>> THEN <<>>
  ELSE InsertsReversed(Tail(data)) \o <<InsertSQL(Head(data))>>

\* data.forEach(record => sqliteContent += insertSQL)
Inserts(data) == [i \in 1..Len(data) |-> InsertSQL(data[i])]

\* createSQLiteDatabase(data): the header, the CREATE TABLE statement and
\* the INSERT statements
createSQLiteDatabase(data) ==
  <<[kind |-> "SQLite format 3"],
    [kind |-> "CREATE TABLE IF NOT EXISTS network_requests",
     columns |-> <<"id">> \o InsertColumns]>> \o Inserts(data)

\* the counts of generateSummary's loop, as an object: for the property names
\* the rows give, in their order, the number of rows that gave each name
Counts(names) ==
  [x \in {names[i] : i \in 1..Len(names)} |->
     Cardinality({i \in 1..Len(names) : names[i] = x})]

\* content_type.split(';')[0] on the content types that occur
BeforeSemicolon(v) ==
  CASE v = Str("text/html; charset=utf-8") -> Str("text/html")
    [] OTHER -> v

\* generateSummary(data); a count's property name is the string of the value
generateSummary(data) ==
  LET typed == SelectSeq(data, LAMBDA r : Truthy(Prop(r, "content_type"))) IN
  [total_requests |-> Len(data),
   unique_domains |-> Cardinality({extractDomain(Prop(data[i], "url")) : i \in 1..Len(data)}),
   methods |-> Counts([i \in 1..Len(data) |-> TemplateString(Prop(data[i], "method"))]),
   status_codes |-> Counts([i \in 1..Len(data) |-> TemplateString(Prop(data[i], "response_code"))]),
   content_types |-> Counts([i \in 1..Len(typed) |-> BeforeSemicolon(Prop(typed[i], "content_type"))]),
   protocols |-> Counts([i \in 1..Len(data) |-> TemplateString(Prop(data[i], "protocol"))])]

\* createTextArchive(data) at the instant t: the title lines, then the JSON,
\* CSV and summary sections
createTextArchive(data, t) ==
  [generated |-> IsoString(t), total |-> Len(data),
   json |-> JsonStringify(data), csv |-> convertToCSV(data),
   summary |-> generateSummary(data)]

(***************************************************************************)
(* The popup (PopupController) and the messages it sends.  The background  *)
(* answers a message in its onMessage listener; what the listener reads    *)
(* and writes before its first await happens when the message arrives, in  *)
(* the step of the click.  The popup's handler resumes with the response   *)
(* in a later step.                                                        *)
(***************************************************************************)
\* the promise getAllData() returns: rejected when this.db is not set yet
\* or when the request or its transaction fails (ok = FALSE), else resolved
\* with the records
getAllDataPromise(opened, records, ok) ==
  IF opened /\ ok THEN [resolved |-> TRUE, result |-> getAllData(records)]
  ELSE [resolved |-> FALSE]

\* what exportData() resolves with: the records, or [] from its catch block
ExportResolves(promise) ==
  IF promise.resolved THEN promise ELSE [resolved |-> TRUE, result |-> <<>>]

\* the response the onMessage listener sends for 'exportData' once
\* exportData() has resolved
ExportDataResponse(promise) == [success |-> TRUE, data |-> promise.result]

\* the popup after a click whose handler is suspended at sendMessage
Clicked(pc, promise) ==
  [pc |-> pc, clicks |-> popup.clicks + 1, shown |-> popup.shown, saved |-> popup.saved,
   domains |-> popup.domains, read |-> promise]

\* the popup after its handler has finished
Shown(message, saved, domains) ==
  [pc |-> "idle", clicks |-> popup.clicks, shown |-> message, saved |-> saved,
   domains |-> domains]

\* whether init() has set this.db
Opened == boot.pc # "open"

\* PopupController.disableDomain: the trimmed input is sent as it is, the
\* background adds it to the set and saves the set, and the popup reads the
\* list again; an empty input sends nothing
PopupDisableDomain(value) ==
  /\ popup.pc = "idle"
  /\ popup.clicks < MaxClicks
  /\ IF Trim(value) = ""
     THEN /\ popup' = [popup EXCEPT !.clicks = @ + 1, !.shown = "Please enter a domain"]
          /\ UNCHANGED <<disabledDomains, storage>>
     ELSE /\ disabledDomains' = SetAdd(disabledDomains, Trim(value))
          /\ storage' = StorageSet(storage, "disabledDomains", disabledDomains')
          /\ popup' = [popup EXCEPT !.clicks = @ + 1, !.shown = "Domain disabled from monitoring",
                                    !.domains = disabledDomains']
  /\ UNCHANGED <<isMonitoring, db, nextId, backup, handlers, hist, dbBy, addFailed, boot,
                 restarts, tally, pushed, page, loads, gated, messages>>

\* PopupController.enableDomain, from the button of a domain in the list
PopupEnableDomain(domain) ==
  /\ popup.pc = "idle"
  /\ popup.clicks < MaxClicks
  /\ \E i \in 1..Len(popup.domains) : popup.domains[i] = domain
  /\ disabledDomains' = SetDelete(disabledDomains, domain)
  /\ storage' = StorageSet(storage, "disabledDomains", disabledDomains')
  /\ popup' = [popup EXCEPT !.clicks = @ + 1, !.shown = "Domain enabled for monitoring",
                            !.domains = disabledDomains']
  /\ UNCHANGED <<isMonitoring, db, nextId, backup, handlers, hist, dbBy, addFailed, boot,
                 restarts, tally, pushed, page, loads, gated, messages>>

\* the click on a button whose message makes the background read the
\* record store: exportData, createZip or exportToSQLite
PopupReads(pc, ok) ==
  /\ popup.pc = "idle"
  /\ popup.clicks < MaxClicks
  /\ popup' = Clicked(pc, getAllDataPromise(Opened, db, ok))
  /\ UNCHANGED <<isMonitoring, disabledDomains, storage, db, nextId, backup, handlers, hist,
                 dbBy, addFailed, boot, restarts, tally, pushed, page, loads, gated, messages>>

\* PopupController.exportData resumed with the response: a response with
\* data (an array, empty or not) is saved as a JSON file
PopupExportData ==
  /\ popup.pc = "exportData"
  /\ LET response == ExportDataResponse(ExportResolves(popup.read)) IN
     popup' = IF response.success
              THEN Shown("Data exported successfully!",
                         <<[type |-> "json", data |-> response.data,
                            content |-> JsonStringify(response.data)]>>, popup.domains)
              ELSE Shown("No data to export", popup.saved, popup.domains)
  /\ UNCHANGED <<isMonitoring, disabledDomains, storage, db, nextId, backup, handlers, hist,
                 dbBy, addFailed, boot, restarts, tally, pushed, page, loads, gated, messages>>

\* createZipArchive resumed with what exportData() resolved with: the
\* archive is downloaded and the popup told so
PopupCreateZip ==
  /\ popup.pc = "createZip"
  /\ LET data == ExportResolves(popup.read).result IN
     popup' = Shown("ZIP archive created and downloaded!",
                    <<[type |-> "txt", data |-> data,
                       content |-> createTextArchive(data, now)]>>, popup.domains)
  /\ UNCHANGED <<isMonitoring, disabledDomains, storage, db, nextId, backup, handlers, hist,
                 dbBy, addFailed, boot, restarts, tally, pushed, page, loads, gated, messages>>

\* exportToSQLite resumed with the settled getAllData(): the script is
\* downloaded, or the catch block returns false
PopupExportSQLite ==
  /\ popup.pc = "exportToSQLite"
  /\ popup' = IF popup.read.resolved
              THEN Shown("SQLite database exported and downloaded!",
                         <<[type |-> "db", data |-> popup.read.result,
                            content |-> createSQLiteDatabase(popup.read.result)]>>,
                         popup.domains)
              ELSE Shown("Failed to export SQLite database", popup.saved, popup.domains)
  /\ UNCHANGED <<isMonitoring, disabledDomains, storage, db, nextId, backup, handlers, hist,
                 dbBy, addFailed, boot, restarts, tally, pushed, page, loads, gated, messages>>

\* the domains the popup can name
DomainNames == {Trim(value) : value \in DomainInputValues} \ {""}

\* the finalized data of the requests stored while the popup is used
PopupData == {LongRunData(n) : n \in 0..3}

\* storeCompleteRequest once the listeners are registered
PopupStores(data) ==
  /\ boot.pc = "ready"
  /\ Len(db) < MaxRecords
  /\ storeCompleteRequest(data)

\* the process is started again while the popup waits for nothing
PopupRestart == popup.pc = "idle" /\ Restart

PopupNext ==
  \/ createIndexedDB
  \/ loadDisabledDomains
  \/ PopupRestart
  \/ \E data \in PopupData : PopupStores(data)
  \/ \E value \in DomainInputValues : PopupDisableDomain(value)
  \/ \E domain \in DomainNames : PopupEnableDomain(domain)
  \/ \E pc \in {"exportData", "createZip", "exportToSQLite"}, ok \in BOOLEAN : PopupReads(pc, ok)
  \/ PopupExportData
  \/ PopupCreateZip
  \/ PopupExportSQLite

PopupSpec == Init /\ [][PopupNext]_vars

\* the exportData button used while requests are being recorded
ExportNext ==
  \/ \E k \in Keys : \E d \in BeforeRequestDetails(k) : handleRequest(k, d)
  \/ \E k \in Keys : \E d \in HeadersReceivedDetails(k) : handleResponse(k, d)
  \/ \E k \in Keys : \E d \in CompletedDetails(k) : handleCompleted(k, d)
  \/ Resume
  \/ createIndexedDB
  \/ loadDisabledDomains
  \/ \E ok \in BOOLEAN : PopupReads("exportData", ok)
  \/ PopupExportData

ExportSpec == Init /\ [][ExportNext]_vars

(***************************************************************************)
(* Two requests in progress.  The behaviour starts when onBeforeRequest    *)
(* has been handled for both keys: each has its pending record in          *)
(* chrome.storage.local.  The history variables count from that moment.    *)
(* The continuations of key r2's invocations run whenever their reply is   *)
(* there; nothing is assumed about those of key r1, whose store.add or     *)
(* backup write may take as long as it likes, or for ever.                 *)
(***************************************************************************)
\* the pending record of key k after its onBeforeRequest
PendingOf(k) ==
  RequestData(CHOOSE d \in BeforeRequestDetails(k) : d.frameId = Num(1), Null, 0)

StalledInit ==
  /\ isMonitoring = TRUE
  /\ disabledDomains = <<>>
  /\ storage = storeRequestData(storeRequestData(<<>>, "r1", PendingOf("r1")), "r2", PendingOf("r2"))
  /\ db = <<>>
  /\ nextId = 1
  /\ backup = <<>>
  /\ handlers = {}
  /\ boot = [pc |-> "ready"]
  /\ restarts = 0
  /\ hist = [k \in Keys |-> <<>>]
  /\ dbBy = <<>>
  /\ addFailed = {}
  /\ tally = [live |-> 0, failed |-> 0, lost |-> 0]
  /\ pushed = <<>>
  /\ page = [pc |-> "idle"]
  /\ loads = 0
  /\ gated = 0
  /\ popup = PopupOpened
  /\ messages = <<>>

\* the continuations of the suspended invocations of key k
ResumeOf(k) ==
  \E h \in handlers :
    /\ h.key = k
    /\ \/ \E w \in WindowIds : ResumeRequest(h, w)
       \/ ResumeResponse(h)
       \/ \E added \in BOOLEAN : ResumeCompleted(h, added)
       \/ \E backupOk \in BOOLEAN : CompletedStored(h, backupOk)
       \/ CompletedFailed(h)

\* the webRequest events and the continuations
RecordingNext ==
  \/ \E k \in Keys : \E d \in BeforeRequestDetails(k) : handleRequest(k, d)
  \/ \E k \in Keys : \E d \in HeadersReceivedDetails(k) : handleResponse(k, d)
  \/ \E k \in Keys : \E d \in CompletedDetails(k) : handleCompleted(k, d)
  \/ \E k \in Keys : ResumeOf(k)

StalledSpec == StalledInit /\ [][RecordingNext]_vars /\ WF_vars(ResumeOf("r2"))

(***************************************************************************)
(* Vocabulary of the properties.                                           *)
(***************************************************************************)
\* an event of phase ph that passed the monitoring gate and the domain filter
Accepted(ph) == [phase |-> ph, res |-> "ok"]

\* the places in key k's history that hold event e
Places(k, e) == {i \in 1..Len(hist[k]) : hist[k][i] = e}

\* the records of db that were stored for key k
RecordsOf(k) == {i \in 1..Len(db) : dbBy[i].key = k}

\* the suspended invocations for key k
InFlight(k) == {h \in handlers : h.key = k}

\* the fields each phase sets
Phase1Fields ==
  {"method", "protocol", "port", "url", "filename", "domain", "tab_id", "window_id",
   "request_headers", "timestamp"}

Phase2Fields ==
  {"response_code", "response_message", "content_type", "content_length", "server", "date",
   "location", "vary", "response_headers"}

Phase3Fields == {"user_agent", "referer", "origin", "cookie", "x_forwarded_for"}

\* the objects the events of key k can supply
SuppliedPhase1(k) ==
  {RequestData(d, w, t) : d \in BeforeRequestDetails(k), w \in WindowIds, t \in 0..MaxEvents}

SuppliedPhase2(k) == {ResponseData(d) : d \in HeadersReceivedDetails(k)}

SuppliedPhase3(k) == {AdditionalHeaders(d) : d \in CompletedDetails(k)}

\* rec agrees on the fields fs with an object the events of its key supplied
Carries(rec, fs, supplied) == \E o \in supplied : \A f \in fs : Prop(rec, f) = o[f]

\* per key and field, the values the events of the key can supply
SuppliedValues ==
  [k \in Keys |->
     [f \in Phase1Fields \cup Phase2Fields \cup Phase3Fields |->
        {o[f] : o \in {x \in SuppliedPhase1(k) \cup SuppliedPhase2(k) \cup SuppliedPhase3(k) :
                         f \in DOMAIN x}}]]

\* every value of rec was supplied by an event of key k (or is the key
\* generator's id, or the undefined of a field no event set)
FromOwnEvents(rec, k) ==
  \A f \in DOMAIN rec :
    \/ f = "id"
    \/ rec[f] = Undefined
    \/ f \in DOMAIN SuppliedValues[k] /\ rec[f] \in SuppliedValues[k][f]

\* the invocations that take the step: those suspended before or after it
\* whose state it changes, and the event it delivers
ActingHandlers ==
  IF restarts' # restarts THEN {} ELSE (handlers \ handlers') \cup (handlers' \ handlers)

\* the invocations that end with the step (an invocation lost in a restart
\* does not end)
Ending == IF restarts' # restarts THEN {} ELSE handlers \ handlers'

DeliveredTo(k) == hist'[k] # hist[k]

\* the phases of the invocations for key k that take the step
ActingPhases(k) ==
  {h.phase : h \in {x \in ActingHandlers : x.key = k}}
    \cup (IF DeliveredTo(k) THEN {hist'[k][Len(hist'[k])].phase} ELSE {})

\* the keys whose invocations take the step
ActingKeys == {k \in Keys : ActingPhases(k) # {}}

(***************************************************************************)
(* C1.  For every key, at most one record is inserted into the record      *)
(* store per accepted phase 1 of that key, however many phase-3 events are *)
(* delivered for it and however the handlers interleave.                   *)
(***************************************************************************)
C1_AtMostOneRecordPerAcceptedPhase1 ==
  \A k \in Keys : Cardinality(RecordsOf(k)) <= Cardinality(Places(k, Accepted(1)))

(***************************************************************************)
(* C2.  When exactly a phase 1, a phase 2 and a phase 3 were delivered for *)
(* a key, in that order, with monitoring on and the domain not excluded,   *)
(* and their handlers have finished, without a storage failure and without *)
(* a restart of the process, exactly one                                   *)
(* record has been inserted for the key, and it carries the fields of      *)
(* phase 1, of phase 2 and of phase 3.                                     *)
(***************************************************************************)
C2_OrderedPhasesGiveOneCompleteRecord ==
  \A k \in Keys :
    (/\ hist[k] = <<Accepted(1), Accepted(2), Accepted(3)>>
     /\ restarts = 0
     /\ InFlight(k) = {}
     /\ k \notin addFailed)
    => /\ Cardinality(RecordsOf(k)) = 1
       /\ \A i \in RecordsOf(k) :
            /\ Carries(db[i], Phase1Fields, SuppliedPhase1(k))
            /\ Carries(db[i], Phase2Fields, SuppliedPhase2(k))
            /\ Carries(db[i], Phase3Fields, SuppliedPhase3(k))

(***************************************************************************)
(* C3.  No merge is lost: a record finalized by a phase 3 of a key that    *)
(* had one accepted phase 1, delivered first, contains the fields of       *)
(* phase 1 and the fields of every phase 2 that was delivered before that  *)
(* phase 3, also when the handlers overlapped.                             *)
(***************************************************************************)
C3_NoMergeLost ==
  \A i \in 1..Len(db) :
    LET k == dbBy[i].key
        before == 1..(dbBy[i].n - 1)
    IN  (Places(k, Accepted(1)) = {1} /\ {j \in 1..Len(hist[k]) : hist[k][j].phase = 1} = {1})
        => /\ Carries(db[i], Phase1Fields, SuppliedPhase1(k))
           /\ (Places(k, Accepted(2)) \cap before # {}
                 => Carries(db[i], Phase2Fields, SuppliedPhase2(k)))

(***************************************************************************)
(* C4.  Per key the temporary store follows ABSENT -> PENDING -> ABSENT:   *)
(* a key becomes pending only by a step of a phase-1 handler of that key;  *)
(* no phase-2 or phase-3 handler creates, or re-creates, a pending record. *)
(***************************************************************************)
C4_OnlyPhase1MakesPending ==
  [][\A k \in Keys :
       (getRequestData(k) = <<>> /\ getRequestData(k)' # <<>>) => ActingPhases(k) = {1}]_vars

(***************************************************************************)
(* C5.  A key whose phase-1 events all met an excluded domain (none was    *)
(* accepted) never gets a pending record; the phase-2 and phase-3 events   *)
(* for it find nothing and fail nowhere, and neither the record store nor  *)
(* the backup receives a record for it.                                    *)
(***************************************************************************)
C5_ExcludedKeyLeavesNoTrace ==
  \A k \in Keys :
    (Places(k, [phase |-> 1, res |-> "excluded"]) # {} /\ Places(k, Accepted(1)) = {})
    => /\ getRequestData(k) = <<>>
       /\ RecordsOf(k) = {}
       /\ k \notin addFailed
       /\ \A h \in InFlight(k) : h.phase \in {2, 3} /\ h.pc = "get" /\ h.snap = <<>>
       /\ \A j \in 1..Len(backup) :
            Prop(backup[j], "url") \notin {d.url : d \in BeforeRequestDetails(k)}

\* C5, witness: a key's phase 1 met an excluded domain, then its phase 2 and
\* phase 3 were delivered with monitoring on and have run to their end
C5_Witness ==
  \E k \in Keys :
    /\ hist[k] = <<[phase |-> 1, res |-> "excluded"], Accepted(2), Accepted(3)>>
    /\ InFlight(k) = {}

(***************************************************************************)
(* C6.  A phase-1 handler acting on a key that is already pending leaves   *)
(* the pending record as it was: every field it had is still there with    *)
(* the same value.                                                         *)
(***************************************************************************)
C6_Phase1KeepsPendingRecord ==
  [][\A k \in Keys :
       (getRequestData(k) # <<>> /\ 1 \in ActingPhases(k))
       => /\ getRequestData(k)' # <<>>
          /\ \A f \in DOMAIN getRequestData(k)[1] :
               Prop(getRequestData(k)'[1], f) = getRequestData(k)[1][f]]_vars

(***************************************************************************)
(* C7.  A phase-2 or phase-3 handler that found no pending record for its  *)
(* key is a no-op: the step that ends it leaves the temporary store, the   *)
(* record store and the backup unchanged.                                  *)
(***************************************************************************)
C7_MissingKeyIsNoOp ==
  [][\A h \in Ending :
       (h.phase \in {2, 3} /\ h.snap = <<>>) => UNCHANGED <<storage, db, backup>>]_vars

(***************************************************************************)
(* C8.  No cross-contamination between keys: a step changes the pending    *)
(* record of a key only if it is a step of a handler of that key, and the  *)
(* record it leaves contains only values supplied by events of that key; a *)
(* stored record is never changed, and a new one belongs to the acting key *)
(* and contains only values supplied by events of that key.                *)
(***************************************************************************)
C8_NoCrossContamination ==
  [][/\ \A k \in Keys :
          getRequestData(k)' # getRequestData(k)
          => /\ ActingKeys = {k}
             /\ getRequestData(k)' # <<>> => FromOwnEvents(getRequestData(k)'[1], k)
     /\ Len(db') >= Len(db)
     /\ SubSeq(db', 1, Len(db)) = db
     /\ \A i \in (Len(db) + 1)..Len(db') :
          /\ ActingKeys = {dbBy'[i].key}
          /\ FromOwnEvents(db'[i], dbBy'[i].key)]_vars

\* C8, witness: two keys in flight at once: a record has been stored for one
\* key, whose phase-3 handler is still suspended before its cleanup, while
\* the other key is pending
C8_Witness ==
  \E k \in Keys, other \in Keys :
    /\ k # other
    /\ RecordsOf(k) # {}
    /\ \E h \in InFlight(k) : h.pc = "onsuccess"
    /\ getRequestData(other) # <<>>

(***************************************************************************)
(* C9.  When a phase-3 handler that found a pending record ends, the       *)
(* key's pending copy has been deleted from the temporary store, whether   *)
(* the insert into the record store succeeded or failed.                   *)
(***************************************************************************)
C9_PendingCopyRemovedAfterPhase3 ==
  [][\A h \in Ending :
       (h.phase = 3 /\ h.pc \in {"onsuccess", "onerror"})
       => getRequestData(h.key)' = <<>>]_vars

(***************************************************************************)
(* C10.  Every pending record is eventually removed from the temporary     *)
(* store, even if no phase 3 is ever delivered for its key.                *)
(***************************************************************************)
C10_PendingEventuallyRemoved ==
  \A k \in Keys : (getRequestData(k) # <<>>) ~> (getRequestData(k) = <<>>)

(***************************************************************************)
(* C11.  The identifiers the record store assigns are strictly increasing  *)
(* in insertion order, so none is assigned twice; this holds across a      *)
(* restart of the process.                                                 *)
(***************************************************************************)
C11_IdsStrictlyIncrease ==
  \A i \in 1..Len(db) : \A j \in 1..Len(db) : i < j => db[i].id[2] < db[j].id[2]

\* C11, witness: a record stored before a restart and one stored after it
C11_Witness ==
  \E i \in 1..Len(db) : \E j \in 1..Len(db) : i < j /\ dbBy[i].run < dbBy[j].run

(***************************************************************************)
(* C12.  The record store is append-only: what getAll() returns before a   *)
(* step is a prefix of what it returns after the step (hence of what any   *)
(* later getAll() returns); no stored record is modified, removed or       *)
(* reordered.                                                              *)
(***************************************************************************)
C12_GetAllOnlyGrows ==
  [][/\ Len(getAllData(db)) <= Len(getAllData(db'))
     /\ SubSeq(getAllData(db'), 1, Len(getAllData(db))) = getAllData(db)]_vars

\* C12, witness: getAll() returns two records, stored one after the other
C12_Witness == Len(getAllData(db)) = 2

C14_RingHoldsLastPushed ==
  loads = 0 =>
    LET n == Len(pushed)
        m == IF n < BackupCapacity THEN n ELSE BackupCapacity
    IN  backup = [j \in 1..m |-> JsonRoundTrip(pushed[n - m + j])]

\* C14, witness: one push more than the capacity, the oldest record gone
C14_Witness ==
  /\ loads = 0
  /\ Len(pushed) = BackupCapacity + 1
  /\ Len(backup) = BackupCapacity
  /\ backup[1] = JsonRoundTrip(pushed[2])

(***************************************************************************)
(* C15.  In every reachable state, the finalize path and the analytics     *)
(* page both writing it, the item 'browserActivityData' holds at most 1000 *)
(* records.                                                                *)
(***************************************************************************)
C15_BackupAtMostCapacity == Len(backup) <= BackupCapacity

(***************************************************************************)
(* C16.  A phase-3 handler that passed the monitoring gate goes on as      *)
(* usual when stopMonitoring() has flipped the gate in the meantime: its   *)
(* step after the read inserts the record it read (unless store.add        *)
(* fails), and its step after the insert removes the pending copy and ends *)
(* the handler.                                                            *)
(***************************************************************************)
C16_PastTheGateCompletes ==
  [][\A h \in handlers \ handlers' :
       (h.phase = 3 /\ h.snap # <<>> /\ ~isMonitoring /\ restarts' = restarts)
       => /\ h.pc = "get" =>
               \/ /\ [h EXCEPT !.pc = "onsuccess"] \in handlers'
                  /\ db' = Append(db, WithId(StoredRecord(CompleteData(h.snap[1], h.d)), nextId))
               \/ /\ [h EXCEPT !.pc = "onerror"] \in handlers'
                  /\ tally'.failed = tally.failed + 1
          /\ h.pc = "onsuccess" =>
               /\ \E i \in 1..Len(db) : dbBy[i].key = h.key /\ dbBy[i].n = h.id
               /\ getRequestData(h.key)' = <<>>
               /\ \A x \in handlers' : x.key # h.key \/ x.id # h.id]_vars

\* C16, witness: monitoring is stopped, a record was inserted while it was
\* stopped, its handler has ended and the pending copy is gone
C16_Witness ==
  \E i \in 1..Len(db) :
    /\ ~isMonitoring
    /\ ~dbBy[i].gate
    /\ InFlight(dbBy[i].key) = {}
    /\ getRequestData(dbBy[i].key) = <<>>

(***************************************************************************)
(* C17.  An event of any phase delivered while monitoring is stopped       *)
(* changes nothing: no pending record is created or merged into, nothing   *)
(* is inserted into the record store or the backup, and no handler is left *)
(* in progress.                                                            *)
(***************************************************************************)
C17_StoppedGateDropsEvents ==
  [][gated' # gated => UNCHANGED <<storage, db, nextId, backup, handlers>>]_vars

\* C17, witness: an event was delivered while monitoring was stopped and a
\* record was pending
C17_Witness == gated = 1 /\ ~isMonitoring /\ Pending # {}

(***************************************************************************)
(* C18.  startMonitoring() and stopMonitoring() are idempotent and change  *)
(* only the gate: calling one twice leaves what calling it once leaves,    *)
(* and a step that flips the gate (other than a restart of the process)    *)
(* leaves the record store, the temporary store, the backup and the set of *)
(* disabled domains as they were.                                          *)
(***************************************************************************)
C18_StartStopIdempotentGateOnly ==
  [][/\ AfterStart(AfterStart(isMonitoring)) = AfterStart(isMonitoring)
     /\ AfterStop(AfterStop(isMonitoring)) = AfterStop(isMonitoring)
     /\ (isMonitoring' # isMonitoring /\ restarts' = restarts)
        => UNCHANGED <<disabledDomains, storage, db, nextId, backup, handlers>>]_vars

\* C18, witness: monitoring is stopped while a record is stored, another is
\* pending and a domain is disabled
C18_Witness == ~isMonitoring /\ Len(db) >= 1 /\ Pending # {} /\ ExcludedSet # {}

(***************************************************************************)
(* C19.  disableDomain and enableDomain are idempotent mutations of the    *)
(* set: adding a domain twice gives what adding it once gives, deleting    *)
(* twice what deleting once gives, deleting a domain that is not in the    *)
(* set leaves the set as it is; after a step of disableDomain(d) the       *)
(* domain is disabled and after a step of enableDomain(d) it is not.       *)
(***************************************************************************)
C19_DisableEnableIdempotent ==
  [][\A d \in DomainInputs :
       /\ SetAdd(SetAdd(disabledDomains, d), d) = SetAdd(disabledDomains, d)
       /\ SetDelete(SetDelete(disabledDomains, d), d) = SetDelete(disabledDomains, d)
       /\ d \notin ExcludedSet => SetDelete(disabledDomains, d) = disabledDomains
       /\ disableDomain(d) => IsDisabled(d)'
       /\ enableDomain(d) => ~IsDisabled(d)'
       /\ Cardinality(ExcludedSet') = Len(disabledDomains')]_vars

\* C19, witness: a domain has been disabled and the list is persisted
C19_Witness ==
  /\ ExcludedSet = DomainInputs
  /\ StorageGet("disabledDomains") = <<disabledDomains>>
  /\ boot.pc = "ready"

(***************************************************************************)
(* C20.  Once the start-up load has run, the persisted set of disabled     *)
(* domains equals the set in memory that the phase-1 gate uses, however    *)
(* the disableDomain and enableDomain calls interleave with each other and *)
(* with the start-up load.                                                 *)
(***************************************************************************)
C20_PersistedSetIsMemorySet ==
  boot.pc = "ready" =>
    ExcludedSet = (IF StorageGet("disabledDomains") = <<>> THEN {}
                   ELSE {StorageGet("disabledDomains")[1][i] :
                           i \in 1..Len(StorageGet("disabledDomains")[1])})

(***************************************************************************)
(* C21: in every reachable state the set of disabled domains holds only    *)
(* lowercase host strings, and it is changed only by disableDomain and     *)
(* enableDomain: no other step of the running extension (a stored record,  *)
(* an export, a message of the popup) alters it.  The steps of init() and  *)
(* the start of the process, which bring the persisted set back, are not   *)
(* counted as changes.                                                     *)
(***************************************************************************)
C21_FilterLowercaseChangedByControlsOnly ==
  [][/\ \A i \in 1..Len(disabledDomains') :
          ToLowerCase(disabledDomains'[i]) = disabledDomains'[i]
     /\ (disabledDomains' # disabledDomains /\ boot.pc = "ready" /\ boot'.pc = "ready")
          => /\ popup'.clicks = popup.clicks + 1
             /\ popup'.shown \in {"Domain disabled from monitoring",
                                  "Domain enabled for monitoring"}]_vars

(***************************************************************************)
(* C22: when the insert into the record store, or the write of the backup, *)
(* fails while a record is finalized, the caller of handleCompleted gets a *)
(* result that says so: what it gets differs from what it gets when both   *)
(* succeeded.                                                              *)
(***************************************************************************)
C22_FailedInsertIsSurfaced ==
  [][\A h \in Ending :
       (h.phase = 3 /\ h.pc \in {"onsuccess", "onerror"})
         => LET stored == h.pc = "onsuccess"
                backedUp == stored /\ pushed' # pushed
            IN  ~(stored /\ backedUp)
                  => handleCompletedReturns(stored, backedUp)
                       # handleCompletedReturns(TRUE, TRUE)]_vars

(***************************************************************************)
(* C23: when the read of the record store fails during an export, the      *)
(* caller gets an error: the popup shows a failure and no file is saved.   *)
(* A failed read is never answered as a successful export of an empty or   *)
(* partial record set.                                                     *)
(***************************************************************************)
C23_FailedReadIsSurfaced ==
  [][(popup.pc # "idle" /\ popup'.pc = "idle" /\ ~popup.read.resolved)
       => /\ popup'.shown \in {"No data to export", "Failed to export SQLite database"}
          /\ popup'.saved = popup.saved]_vars

(***************************************************************************)
(* C24: an export that runs while records are being finalized never sees a *)
(* partly written record: every record getAllData() resolved with, and     *)
(* every record of the file saved from it, has all the fields of a stored  *)
(* record and is one of the records of the store, whatever the             *)
(* interleaving with the inserts.                                          *)
(***************************************************************************)
C24_ExportSeesWholeRecords ==
  LET Whole(rec) == /\ DOMAIN rec = FieldSet \cup {"id"}
                    /\ \E j \in 1..Len(db) : db[j] = rec
  IN  /\ (popup.pc # "idle" /\ popup.read.resolved)
           => \A i \in 1..Len(popup.read.result) : Whole(popup.read.result[i])
      /\ popup.saved # <<>>
           => \A i \in 1..Len(popup.saved[1].data) : Whole(popup.saved[1].data[i])

\* an export has read two records while the store.add of an invocation had
\* been applied and its onsuccess had not run yet
C24_Witness ==
  /\ popup.pc = "exportData"
  /\ popup.read.resolved
  /\ Len(popup.read.result) = 2
  /\ \E h \in handlers : h.phase = 3 /\ h.pc = "onsuccess"

C26_SkippedPhase2StillFinalizes ==
  [][\A h \in Ending :
       (h.phase = 3 /\ h.pc = "get" /\ h.snap # <<>>
          /\ DOMAIN h.snap[1] \cap Phase2Fields = {})
         => \/ [h EXCEPT !.pc = "onerror"] \in handlers'
            \/ /\ [h EXCEPT !.pc = "onsuccess"] \in handlers'
               /\ Len(db') = Len(db) + 1
               /\ \A f \in Phase2Fields : db'[Len(db')][f] = Undefined
               /\ \A f \in Phase1Fields : db'[Len(db')][f] = h.snap[1][f]]_vars

\* a record was finalized from a pending record without response data, and
\* its invocation has ended
C26_Witness ==
  /\ Len(db) = 1
  /\ db[1]["response_code"] = Undefined
  /\ db[1]["content_length"] = Undefined
  /\ db[1]["user_agent"] = Str("UA1")
  /\ handlers = {}
  /\ Len(hist["r1"]) = 2

(***************************************************************************)
(* Vocabulary of the export formats.                                       *)
(***************************************************************************)
\* the file the browser saved last is of the given type
Saved(type) == popup.saved # <<>> /\ popup.saved[1].type = type

\* a field of a record is present: it has a value, and the value is not null
Present(rec, f) == f \in DOMAIN rec /\ rec[f] \notin {Undefined, Null}

\* the header line of a CSV text that has one
HeaderOf(csv) == csv[1]

\* the CSV text has the column f
HasColumn(csv, f) == \E j \in 1..Len(HeaderOf(csv)) : HeaderOf(csv)[j] = f

\* the cell of column f in the line of the i-th record
CellOf(csv, i, f) == csv[i + 1][CHOOSE j \in 1..Len(HeaderOf(csv)) : HeaderOf(csv)[j] = f]

\* the value of column c in an INSERT statement
ValueOf(insert, c) == insert.values[CHOOSE j \in 1..Len(insert.columns) : insert.columns[j] = c]

(***************************************************************************)
(* C27: for every record set, the CSV text made of the parsed JSON text of *)
(* the records keeps every field value as a string equivalent to the       *)
(* original: a field that is present in a record, a numeric field of value *)
(* 0 included, has a cell with the text of its value, and the header       *)
(* columns are those of the CSV text of the original records.              *)
(***************************************************************************)
C27_CsvOfParsedJsonKeepsValues ==
  (Saved("txt") /\ popup.saved[1].data # <<>>)
    => LET data == popup.saved[1].data
           back == convertToCSV(JsonParse(popup.saved[1].content.json))
       IN  /\ Len(back) = Len(data) + 1
           /\ HeaderOf(back) = HeaderOf(popup.saved[1].content.csv)
           /\ \A i \in 1..Len(data) : \A f \in DOMAIN data[i] :
                 Present(data[i], f)
                   => /\ HasColumn(back, f)
                      /\ CellOf(back, i, f) = Quoted("\"", TemplateString(data[i][f]))

(***************************************************************************)
(* C28: the CSV text of a record set has a header line with the field      *)
(* names of the first record, followed by exactly one line per record;     *)
(* every cell is quoted, the cell of a field that is present holds the     *)
(* text of its value, and the cell of an absent field is empty.            *)
(***************************************************************************)
C28_CsvHeaderAndOneQuotedRowPerRecord ==
  (Saved("txt") /\ popup.saved[1].data # <<>>)
    => LET data == popup.saved[1].data
           csv == popup.saved[1].content.csv
       IN  /\ Len(csv) = Len(data) + 1
           /\ {HeaderOf(csv)[j] : j \in 1..Len(HeaderOf(csv))} = DOMAIN data[1]
           /\ \A i \in 1..Len(data) :
                 /\ Len(csv[i + 1]) = Len(HeaderOf(csv))
                 /\ \A f \in DOMAIN data[1] :
                       CellOf(csv, i, f) =
                         IF Present(data[i], f) THEN Quoted("\"", TemplateString(data[i][f]))
                         ELSE Quoted("\"", Str(""))

(***************************************************************************)
(* C29: the SQL script of a record set is the fixed header, one CREATE     *)
(* TABLE IF NOT EXISTS statement and exactly one INSERT statement per      *)
(* record, in the order of the records; for the empty record set it is the *)
(* header and the CREATE TABLE statement and no INSERT statement.          *)
(***************************************************************************)
C29_ScriptHasOneInsertPerRecordInOrder ==
  Saved("db")
    => LET data == popup.saved[1].data
           script == popup.saved[1].content
       IN  /\ Len(script) = Len(data) + 2
           /\ script[1].kind = "SQLite format 3"
           /\ script[2].kind = "CREATE TABLE IF NOT EXISTS network_requests"
           /\ \A i \in 1..Len(data) :
                 /\ script[i + 2].kind = "INSERT INTO network_requests"
                 /\ ValueOf(script[i + 2], "timestamp") = Quoted("'", data[i]["timestamp"])
                 /\ ValueOf(script[i + 2], "url") = Quoted("'", data[i]["url"])

\* a script of two records with different time stamps was saved
C29_Witness ==
  /\ Saved("db")
  /\ Len(popup.saved[1].data) = 2
  /\ popup.saved[1].data[1]["timestamp"] # popup.saved[1].data[2]["timestamp"]
  /\ Len(popup.saved[1].content) = 4

\* a script of the empty record set was saved
C29_WitnessEmpty ==
  /\ Saved("db")
  /\ popup.saved[1].data = <<>>

(***************************************************************************)
(* C30: in every INSERT statement of the SQL script a numeric field (port, *)
(* response_code, content_length, tab_id, window_id) is written as NULL    *)
(* exactly when the record lacks the field; a numeric value that is        *)
(* present, 0 included, is written as the bare number.                     *)
(***************************************************************************)
C30_NullExactlyWhenNumericFieldAbsent ==
  Saved("db")
    => LET data == popup.saved[1].data
           script == popup.saved[1].content
       IN  \A i \in 1..Len(data) : \A c \in NumericColumns :
             ValueOf(script[i + 2], c) =
               IF Present(data[i], c) THEN Bare(TemplateString(data[i][c]))
               ELSE Bare(Str("NULL"))

(***************************************************************************)
(* C31: the summary of a record set holds, for any record set, the number  *)
(* of records per method, per response code, per content type (the part    *)
(* before ';') and per protocol, the number of distinct domains, and the   *)
(* total content length, equal to the sum of content_length over the       *)
(* records.                                                                *)
(***************************************************************************)
C31_SummaryHasCountsAndTotalLength ==
  Saved("txt")
    => LET data == popup.saved[1].data
           summary == popup.saved[1].content.summary
           Rows(f, x) == {i \in 1..Len(data) : TemplateString(Prop(data[i], f)) = x}
           Types == {i \in 1..Len(data) : Truthy(Prop(data[i], "content_type"))}
           Length(i) == IF Present(data[i], "content_length") THEN data[i]["content_length"][2] ELSE 0
           Total[n \in 0..Len(data)] == IF n = 0 THEN 0 ELSE Total[n - 1] + Length(n)
       IN  /\ summary.total_requests = Len(data)
           /\ \A i \in 1..Len(data) :
                 /\ summary.methods[TemplateString(Prop(data[i], "method"))]
                      = Cardinality(Rows("method", TemplateString(Prop(data[i], "method"))))
                 /\ summary.status_codes[TemplateString(Prop(data[i], "response_code"))]
                      = Cardinality(Rows("response_code", TemplateString(Prop(data[i], "response_code"))))
                 /\ summary.protocols[TemplateString(Prop(data[i], "protocol"))]
                      = Cardinality(Rows("protocol", TemplateString(Prop(data[i], "protocol"))))
           /\ \A i \in Types :
                 /\ BeforeSemicolon(data[i]["content_type"]) \in DOMAIN summary.content_types
                 /\ summary.content_types[BeforeSemicolon(data[i]["content_type"])]
                      = Cardinality({j \in Types : BeforeSemicolon(data[j]["content_type"])
                                                     = BeforeSemicolon(data[i]["content_type"])})
           /\ \A x \in DOMAIN summary.content_types : x # Str("text/html; charset=utf-8")
           /\ summary.unique_domains = Cardinality({data[i]["domain"] : i \in 1..Len(data)})
           /\ "total_size" \in DOMAIN summary
           /\ summary.total_size = Total[Len(data)]

(***************************************************************************)
(* C32: an onBeforeRequest event whose URL cannot be parsed is no failure: *)
(* every accepted onBeforeRequest that needs no window lookup leaves a     *)
(* pending record, the pending record of an unparsable URL has protocol    *)
(* 'unknown', domain 'unknown', no port (null) and the empty filename, and *)
(* onCompleted finalizes it like any other record: unless store.add itself *)
(* fails, the record is appended to the store with these values.           *)
(***************************************************************************)
C32_UnparsableUrlIsRecorded ==
  [][LET Sentinels(rec) ==
           /\ rec["protocol"] = Str("unknown")
           /\ rec["domain"] = Str("unknown")
           /\ rec["port"] = Null
           /\ rec["filename"] = Str("")
     IN  /\ \A k \in Keys :
              (/\ hist'[k] = Append(hist[k], Accepted(1))
               /\ handlers' = handlers)
                => getRequestData(k)' # <<>>
         /\ \A k \in Keys :
              (getRequestData(k)' # <<>> /\ ~NewURL(getRequestData(k)'[1]["url"]).ok)
                => Sentinels(getRequestData(k)'[1])
         /\ \A h \in Ending :
              (h.phase = 3 /\ h.pc = "get" /\ h.snap # <<>> /\ ~NewURL(h.snap[1]["url"]).ok)
                => \/ [h EXCEPT !.pc = "onerror"] \in handlers'
                   \/ /\ [h EXCEPT !.pc = "onsuccess"] \in handlers'
                      /\ Len(db') = Len(db) + 1
                      /\ db'[Len(db')]["url"] = h.snap[1]["url"]
                      /\ Sentinels(db'[Len(db')])]_vars

\* the record of a request with an unparsable URL is in the store, and its
\* invocation has ended
C32_Witness ==
  /\ Len(db) = 1
  /\ db[1]["url"] = Str("not a url")
  /\ db[1]["protocol"] = Str("unknown")
  /\ db[1]["port"] = Null
  /\ handlers = {}
  /\ Pending = {}

(***************************************************************************)
(* C33: when no body sample can be obtained at onCompleted, the record is  *)
(* still finalized and inserted, with response_preview and                 *)
(* response_checksum absent (undefined).  getResponseBody obtains no body  *)
(* for any request, so: every onCompleted invocation that found a pending  *)
(* record either has its store.add fail or appends a record that has       *)
(* neither value and keeps every value of the pending record.              *)
(***************************************************************************)
C33_NoBodyStillInserted ==
  [][\A h \in Ending :
       (h.phase = 3 /\ h.pc = "get" /\ h.snap # <<>>)
         => \/ [h EXCEPT !.pc = "onerror"] \in handlers'
            \/ /\ [h EXCEPT !.pc = "onsuccess"] \in handlers'
               /\ Len(db') = Len(db) + 1
               /\ db'[Len(db')]["response_preview"] = Undefined
               /\ db'[Len(db')]["response_checksum"] = Undefined
               /\ \A f \in DOMAIN h.snap[1] \cap FieldSet :
                    db'[Len(db')][f] = h.snap[1][f]]_vars

\* a record with response data and without preview and checksum is in the
\* store, and its invocation has ended
C33_Witness ==
  /\ Len(db) = 1
  /\ db[1]["response_code"] = Num(200)
  /\ db[1]["response_preview"] = Undefined
  /\ db[1]["response_checksum"] = Undefined
  /\ handlers = {}

(***************************************************************************)
(* C34: the domain filter is checked on every inbound event: an            *)
(* onHeadersReceived or onCompleted event that arrives for a key whose     *)
(* pending record's domain is in the set of disabled domains has no        *)
(* effect: it starts no invocation that reads, merges or inserts the       *)
(* record, and changes neither chrome.storage.local nor the object store.  *)
(***************************************************************************)
C34_EventForExcludedDomainHasNoEffect ==
  [][\A k \in Keys :
       (/\ DeliveredTo(k)
        /\ hist'[k][Len(hist'[k])].phase \in {2, 3}
        /\ getRequestData(k) # <<>>
        /\ \E x \in ExcludedSet : getRequestData(k)[1]["domain"] = Str(x))
         => /\ handlers' = handlers
            /\ storage' = storage
            /\ db' = db]_vars

(***************************************************************************)
(* C35: the merge of onHeadersReceived only adds or updates response-side  *)
(* fields: in every step an onHeadersReceived or onCompleted invocation    *)
(* takes, a pending record that is there before and after the step keeps   *)
(* every field it had, and every field other than the response-side ones   *)
(* keeps its value.                                                        *)
(***************************************************************************)
C35_MergeKeepsRequestFields ==
  [][\A h \in Ending :
       (/\ h.phase \in {2, 3}
        /\ getRequestData(h.key) # <<>>
        /\ getRequestData(h.key)' # <<>>)
         => /\ DOMAIN getRequestData(h.key)[1] \subseteq DOMAIN getRequestData(h.key)'[1]
            /\ \A f \in DOMAIN getRequestData(h.key)[1] \ Phase2Fields :
                 getRequestData(h.key)'[1][f] = getRequestData(h.key)[1][f]]_vars

(***************************************************************************)
(* The analytics page (AnalyticsPage).  Its messages to the background go  *)
(* through sendMessage, which always resolves: with the response, or with  *)
(* a failure of its own when the 10 s timer fires first, when              *)
(* chrome.runtime.lastError is set or when the callback gets no response.  *)
(***************************************************************************)
\* the ways a chrome.runtime.sendMessage of the page can end
SendOutcomes == {"callback", "timeout", "lastError"}

\* what sendMessage(message) resolves with; response is what the callback
\* got: <<>> for none, else <<the response>>
sendMessage(outcome, response) ==
  CASE outcome = "timeout" -> [success |-> FALSE, error |-> Str("Request timeout")]
    [] outcome = "lastError" -> [success |-> FALSE, error |-> Str("lastError.message")]
    [] OTHER -> IF response # <<>> THEN response[1]
                ELSE [success |-> FALSE, error |-> Str("No response received")]

\* the default of sendMessageWithRetry's parameter maxRetries
maxRetries == 3

Min(a, b) == IF a < b THEN a ELSE b

\* const delay = Math.min(1000 * attempt, 5000)
RetryDelay(attempt) == Min(1000 * attempt, 5000)

\* sendMessageWithRetry(message, max) up to its first await: the first
\* sendMessage, or the return when the loop has nothing to do.  last (what
\* the last attempt resolved with) and waits (the delays waited) are kept as
\* the history of the call.
sendMessageWithRetry(max) ==
  IF 1 <= max
  THEN [maxRetries |-> max, attempt |-> 1, lastError |-> Null, pc |-> "send",
        last |-> <<>>, waits |-> <<>>, result |-> <<>>]
  ELSE [maxRetries |-> max, attempt |-> 1, lastError |-> Null, pc |-> "return",
        last |-> <<>>, waits |-> <<>>,
        result |-> <<[success |-> FALSE, error |-> Str("Max retries exceeded")]>>]

\* a loop that waits after every failed attempt and goes round once more
RetriesOnceMore(call, response) ==
  IF response.success
  THEN [call EXCEPT !.pc = "return", !.last = <<response>>, !.result = <<response>>]
  ELSE [call EXCEPT !.lastError = OrElse(Prop(response, "error"), Str("Unknown error")),
                    !.pc = IF call.attempt <= call.maxRetries THEN "wait" ELSE "return",
                    !.last = <<response>>,
                    !.waits = IF call.attempt <= call.maxRetries
                              THEN Append(@, RetryDelay(call.attempt)) ELSE @,
                    !.result = IF call.attempt <= call.maxRetries THEN <<>>
                               ELSE <<[success |-> FALSE,
                                       error |-> OrElse(Prop(response, "error"), Str("Unknown error"))]>>]

\* the loop body resumed with what sendMessage resolved with: return the
\* response when it is a success; else keep its error, and either start the
\* delay (attempt < maxRetries) or leave the loop and return the failure
Attempted(call, response) ==
  LET lastError == OrElse(Prop(response, "error"), Str("Unknown error")) IN
  IF response.success
  THEN [call EXCEPT !.pc = "return", !.last = <<response>>, !.result = <<response>>]
  ELSE IF call.attempt < call.maxRetries
  THEN [call EXCEPT !.lastError = lastError, !.pc = "wait", !.last = <<response>>,
                    !.waits = Append(@, RetryDelay(call.attempt))]
  ELSE [call EXCEPT !.lastError = lastError, !.pc = "return", !.last = <<response>>,
                    !.result = <<[success |-> FALSE,
                                  error |-> OrElse(lastError, Str("Max retries exceeded"))]>>]

\* the delay is over: attempt++, and the next sendMessage
Delayed(call) == [call EXCEPT !.attempt = @ + 1, !.pc = "send"]

\* the page as its constructor leaves it: isLoading false, no invocation of
\* loadAnalytics in progress; shown is what the page displays, logged the
\* debug info it wrote to the console last (with the records the store held
\* when the background read it, and the gate and the set of disabled domains
\* when it answered)
AnalyticsPage ==
  [isLoading |-> FALSE, runs |-> {}, shown |-> "loading", logged |-> <<>>]

\* getDebugInfo() resumed with the outcome of its getAllData()
getDebugInfo(promise) ==
  IF promise.resolved
  THEN [isMonitoring |-> isMonitoring,
        disabledDomains |-> disabledDomains,
        dataCount |-> Num(Len(promise.result)),
        dbInitialized |-> Opened,
        lastRequestTime |-> IF Len(promise.result) > 0
                            THEN promise.result[Len(promise.result)]["timestamp"]
                            ELSE Null]
  ELSE [isMonitoring |-> isMonitoring,
        disabledDomains |-> disabledDomains,
        dataCount |-> Num(0),
        dbInitialized |-> Opened,
        error |-> Str("error.message")]

\* the response the onMessage listener sends for 'debugInfo'
DebugInfoResponse(info) == [success |-> TRUE, info |-> info]

\* a guard that lets every call pass
NeverLoading(isLoading) == FALSE

\* if (this.isLoading) return, at the top of loadAnalytics
Guarded(isLoading) == isLoading

\* the finally block of loadAnalytics: this.isLoading = false
Finally(isLoading) == FALSE

\* a call of loadAnalytics (from init(), or from the refresh button), up to
\* its first await: the guard; then isLoading is set, and either the
\* extension is not available (showError, return, finally) or the debugInfo
\* message is sent, for which the background starts getAllData()
PageLoadAnalytics(available, ok) ==
  /\ loads < MaxCalls
  /\ loads' = loads + 1
  /\ page' = IF Guarded(page.isLoading) THEN page
             ELSE IF ~available
             THEN [page EXCEPT !.isLoading = Finally(TRUE), !.shown = "error"]
             ELSE [page EXCEPT !.isLoading = TRUE,
                               !.shown = "loading",
                               !.runs = @ \cup {[id |-> loads + 1, pc |-> "debugInfo",
                                                 read |-> getAllDataPromise(Opened, db, ok),
                                                 seen |-> db, call |-> <<>>]}]
  /\ UNCHANGED <<isMonitoring, disabledDomains, storage, db, nextId, backup, handlers, boot,
                 restarts, hist, dbBy, addFailed, tally, pushed, gated, popup, messages>>

\* resumed with what sendMessage({action: 'debugInfo'}) resolved with: the
\* info is logged, and sendMessageWithRetry sends exportData
PageDebugInfo(r, outcome, ok) ==
  /\ r \in page.runs /\ r.pc = "debugInfo"
  /\ LET debugResponse == sendMessage(outcome, <<DebugInfoResponse(getDebugInfo(r.read))>>) IN
     page' = [page EXCEPT
                !.logged = IF debugResponse.success
                           THEN <<[info |-> debugResponse.info, seen |-> r.seen,
                                   gate |-> isMonitoring, excluded |-> disabledDomains]>>
                           ELSE @,
                !.runs = (@ \ {r}) \cup {[r EXCEPT !.pc = "exportData",
                                                   !.read = getAllDataPromise(Opened, db, ok),
                                                   !.call = <<sendMessageWithRetry(maxRetries)>>]}]
  /\ UNCHANGED <<isMonitoring, disabledDomains, storage, db, nextId, backup, handlers, boot,
                 restarts, hist, dbBy, addFailed, tally, pushed, loads, gated, popup, messages>>

\* what the page displays after the rest of the try block, given the
\* response sendMessageWithRetry returned and the localStorage item; threw:
\* rendering threw, which the catch block answers with showError
Rendered(response, item, threw) ==
  IF threw THEN "error"
  ELSE IF response.success /\ Len(Prop(response, "data")) > 0 THEN "content"
  ELSE IF Len(item) > 0 THEN "content"
  ELSE "noData"

\* resumed with what the sendMessage of one attempt resolved with: the delay
\* before the next attempt, or sendMessageWithRetry returns and loadAnalytics
\* runs to its end: data that is not empty is saved and shown, else the
\* localStorage item is shown, and the finally block resets isLoading
PageExportData(r, outcome, saveOk, threw) ==
  /\ r \in page.runs /\ r.pc = "exportData"
  /\ LET response == sendMessage(outcome, <<ExportDataResponse(ExportResolves(r.read))>>)
         call == Attempted(r.call[1], response)
     IN  IF call.pc = "wait"
         THEN /\ page' = [page EXCEPT !.runs = (@ \ {r}) \cup {[r EXCEPT !.pc = "delay",
                                                                      !.call = <<call>>]}]
              /\ UNCHANGED backup
         ELSE /\ backup' = IF call.result[1].success /\ Len(call.result[1].data) > 0
                           THEN saveToLocalStorage(backup, call.result[1].data, saveOk)
                           ELSE backup
              /\ page' = [page EXCEPT !.isLoading = Finally(@),
                                      !.shown = Rendered(call.result[1], backup, threw),
                                      !.runs = @ \ {r}]
  /\ UNCHANGED <<isMonitoring, disabledDomains, storage, db, nextId, handlers, boot,
                 restarts, hist, dbBy, addFailed, tally, pushed, loads, gated, popup, messages>>

\* the delay between two attempts is over: the next sendMessage
PageDelayed(r, ok) ==
  /\ r \in page.runs /\ r.pc = "delay"
  /\ page' = [page EXCEPT !.runs = (@ \ {r}) \cup {[r EXCEPT !.pc = "exportData",
                                                           !.read = getAllDataPromise(Opened, db, ok),
                                                           !.call = <<Delayed(r.call[1])>>]}]
  /\ UNCHANGED <<isMonitoring, disabledDomains, storage, db, nextId, backup, handlers, boot,
                 restarts, hist, dbBy, addFailed, tally, pushed, loads, gated, popup, messages>>

\* the continuations of loadAnalytics
PageResume ==
  \/ \E r \in page.runs, outcome \in SendOutcomes, ok \in BOOLEAN : PageDebugInfo(r, outcome, ok)
  \/ \E r \in page.runs, outcome \in SendOutcomes, saveOk \in BOOLEAN, threw \in BOOLEAN :
       PageExportData(r, outcome, saveOk, threw)
  \/ \E r \in page.runs, ok \in BOOLEAN : PageDelayed(r, ok)

\* the background as its constructor leaves it, nothing persisted, and the
\* analytics page p
OpenedWith(p) ==
  /\ isMonitoring = TRUE
  /\ disabledDomains = <<>>
  /\ storage = <<>>
  /\ db = <<>>
  /\ nextId = 1
  /\ backup = <<>>
  /\ handlers = {}
  /\ boot = [pc |-> "open"]
  /\ restarts = 0
  /\ hist = [k \in Keys |-> <<>>]
  /\ dbBy = <<>>
  /\ addFailed = {}
  /\ tally = [live |-> 0, failed |-> 0, lost |-> 0]
  /\ pushed = <<>>
  /\ page = p
  /\ loads = 0
  /\ gated = 0
  /\ popup = PopupOpened
  /\ messages = <<>>

\* the analytics page is open from the start, while the background starts,
\* records and restarts
PageInit == OpenedWith(AnalyticsPage)

PageNext ==
  \/ createIndexedDB
  \/ loadDisabledDomains
  \/ Restart
  \/ PopupStores(LongRunData(Len(db)))
  \/ \E available \in BOOLEAN, ok \in BOOLEAN : PageLoadAnalytics(available, ok)
  \/ PageResume

PageSpec == PageInit /\ [][PageNext]_vars

\* the replies the page waits for arrive (the response, or the 10 s timer
\* of sendMessage), and so do the timers of the delays
FairPageSpec == PageSpec /\ WF_vars(PageResume)

(***************************************************************************)
(* sendMessageWithRetry on its own: one call, with maxRetries 0, 1, the    *)
(* default, or MaxRetriesTried, for a message the background answers with  *)
(* a success, with a failure that names its error, with a failure that     *)
(* names none, or not at all.                                              *)
(***************************************************************************)
RetryInputs == {0, 1, maxRetries, MaxRetriesTried}

\* what the callback of chrome.runtime.sendMessage can get
RetryResponses ==
  {<<>>, <<[success |-> TRUE]>>, <<[success |-> FALSE]>>,
   <<[success |-> FALSE, error |-> Str("Unknown action")]>>}

\* the invocation of a call: waiting ("retry") or returned
Calling(call) ==
  [id |-> 0, pc |-> IF call.pc = "return" THEN "returned" ELSE "retry", call |-> <<call>>]

RetryInit ==
  \E max \in RetryInputs :
    OpenedWith([AnalyticsPage EXCEPT !.runs = {Calling(sendMessageWithRetry(max))}])

\* the sendMessage of the attempt resolves
RetryAttempted(r, outcome, response) ==
  /\ r \in page.runs /\ r.pc = "retry" /\ r.call[1].pc = "send"
  /\ page' = [page EXCEPT !.runs = {Calling(Attempted(r.call[1], sendMessage(outcome, response)))}]
  /\ UNCHANGED <<isMonitoring, disabledDomains, storage, db, nextId, backup, handlers, boot,
                 restarts, hist, dbBy, addFailed, tally, pushed, loads, gated, popup, messages>>

\* the timer of the delay fires
RetryDelayed(r) ==
  /\ r \in page.runs /\ r.pc = "retry" /\ r.call[1].pc = "wait"
  /\ page' = [page EXCEPT !.runs = {Calling(Delayed(r.call[1]))}]
  /\ UNCHANGED <<isMonitoring, disabledDomains, storage, db, nextId, backup, handlers, boot,
                 restarts, hist, dbBy, addFailed, tally, pushed, loads, gated, popup, messages>>

RetryNext ==
  \/ \E r \in page.runs, outcome \in SendOutcomes, response \in RetryResponses :
       RetryAttempted(r, outcome, response)
  \/ \E r \in page.runs : RetryDelayed(r)

RetrySpec == RetryInit /\ [][RetryNext]_vars

(***************************************************************************)
(* The control messages.  The onMessage listener answers the synchronous   *)
(* actions before it returns; for the others it starts the operation and   *)
(* calls sendResponse in the then-callback of its promise.  The listener   *)
(* has no return statement: it never returns true, which is what keeps the *)
(* channel of a message open for a response sent after the listener        *)
(* returned.  Whether such a response still reaches the sender is the      *)
(* browser's choice; a sender that got none has its callback called        *)
(* without a response, the case both sendMessage functions provide for.    *)
(***************************************************************************)
\* the cases of the switch that call sendResponse before the listener returns
SyncActions ==
  {"startMonitoring", "stopMonitoring", "getDisabledDomains", "pageInfo", "formSubmission",
   "userInteraction", "consoleMessage", "visibilityChange", "pageUnload"}

\* the cases that call it in a then-callback
AsyncActions ==
  {"exportData", "createZip", "openAnalytics", "disableDomain", "enableDomain",
   "exportToSQLite", "debugInfo"}

\* the actions that read the record store
ReadingActions == {"exportData", "createZip", "exportToSQLite", "debugInfo"}

\* the actions sent: every case of the switch, and one it does not know
ControlActions == SyncActions \cup AsyncActions \cup {"ping"}

\* the responses sendResponse is called with before the listener returns
Responses(action) ==
  CASE action = "getDisabledDomains" -> <<[success |-> TRUE, domains |-> disabledDomains]>>
    [] action \in SyncActions \ {"getDisabledDomains"} -> <<[success |-> TRUE]>>
    [] action \in AsyncActions -> <<>>
    [] OTHER -> <<[success |-> FALSE, error |-> Str("Unknown action")]>>

\* the response the then-callback of an asynchronous action sends; ok: the
\* download or the new tab did not throw
Completion(m, ok) ==
  CASE m.action = "exportData" -> ExportDataResponse(ExportResolves(m.read[1]))
    [] m.action = "createZip" -> [success |-> ok]
    [] m.action = "openAnalytics" -> [success |-> ok]
    [] m.action = "exportToSQLite" -> [success |-> m.read[1].resolved /\ ok]
    [] m.action = "debugInfo" -> DebugInfoResponse(getDebugInfo(m.read[1]))
    [] OTHER -> [success |-> TRUE]

\* the listener runs for a message with the given action: the state of the
\* monitor after it returned, and the message with the responses sent so far
\* (sent) and those that reached the sender (got)
Listener(action, domain, ok) ==
  /\ Len(messages) < MaxMessages
  /\ isMonitoring' = CASE action = "startMonitoring" -> AfterStart(isMonitoring)
                       [] action = "stopMonitoring" -> AfterStop(isMonitoring)
                       [] OTHER -> isMonitoring
  /\ disabledDomains' = CASE action = "disableDomain" -> SetAdd(disabledDomains, domain)
                          [] action = "enableDomain" -> SetDelete(disabledDomains, domain)
                          [] OTHER -> disabledDomains
  /\ storage' = IF action \in {"disableDomain", "enableDomain"}
                THEN StorageSet(storage, "disabledDomains", disabledDomains')
                ELSE storage
  /\ messages' = Append(messages,
                   [action |-> action,
                    run |-> restarts,
                    pc |-> IF action \in AsyncActions THEN "pending" ELSE "answered",
                    read |-> IF action \in ReadingActions
                             THEN <<getAllDataPromise(Opened, db, ok)>> ELSE <<>>,
                    sent |-> Responses(action),
                    got |-> Responses(action)])

\* a message from the analytics page, a content script or one of the
\* popup's buttons other than start and stop
Control(action, domain, ok) ==
  /\ action \notin {"startMonitoring", "stopMonitoring"}
  /\ Listener(action, domain, ok)
  /\ UNCHANGED <<db, nextId, backup, handlers, boot, restarts, hist, dbBy, addFailed, tally,
                 pushed, page, loads, gated, popup>>

\* the file the browser has saved last after the operation of message m: the
\* archive of createZip, the script of exportToSQLite
Downloaded(m, ok) ==
  IF m.action = "createZip" /\ ok
  THEN <<[type |-> "txt", data |-> ExportResolves(m.read[1]).result,
          content |-> createTextArchive(ExportResolves(m.read[1]).result, now)]>>
  ELSE IF m.action = "exportToSQLite" /\ m.read[1].resolved /\ ok
  THEN <<[type |-> "db", data |-> m.read[1].result,
          content |-> createSQLiteDatabase(m.read[1].result)]>>
  ELSE popup.saved

\* whether the listener returns true to the browser: it has no return
\* statement
ListenerReturnsTrue == FALSE

\* the promise of the operation of message i resolves, and its
\* then-callback calls sendResponse; open: the browser still takes the
\* response, which it must only when the listener returned true
Completed(i, ok, open) ==
  /\ ListenerReturnsTrue => open
  /\ i \in 1..Len(messages)
  /\ messages[i].pc = "pending"
  /\ messages[i].run = restarts
  /\ messages' = [messages EXCEPT ![i] = [@ EXCEPT !.pc = "done",
                                                  !.sent = Append(@, Completion(messages[i], ok)),
                                                  !.got = IF open
                                                          THEN Append(@, Completion(messages[i], ok))
                                                          ELSE @]]
  /\ popup' = [popup EXCEPT !.saved = Downloaded(messages[i], ok)]
  /\ UNCHANGED <<isMonitoring, disabledDomains, storage, db, nextId, backup, handlers, boot,
                 restarts, hist, dbBy, addFailed, tally, pushed, page, loads, gated>>

\* PopupController.startMonitoring / stopMonitoring up to the await of
\* sendMessage; the listener runs and answers
PopupToggle(action) ==
  /\ action \in {"startMonitoring", "stopMonitoring"}
  /\ popup.pc = "idle"
  /\ popup.clicks < MaxClicks
  /\ popup' = Clicked(action, Responses(action))
  /\ Listener(action, "", TRUE)
  /\ UNCHANGED <<db, nextId, backup, handlers, boot, restarts, hist, dbBy, addFailed, tally,
                 pushed, page, loads, gated>>

\* resumed with the response (sendMessage resolves with a failure of its
\* own when there is none): on success the state is written to
\* chrome.storage.local and shown
PopupToggled ==
  /\ popup.pc \in {"startMonitoring", "stopMonitoring"}
  /\ LET response == IF popup.read # <<>> THEN popup.read[1]
                     ELSE [success |-> FALSE, error |-> Str("No response")]
         started == popup.pc = "startMonitoring"
     IN  IF response.success
         THEN /\ storage' = StorageSet(storage, "isMonitoring", started)
              /\ popup' = Shown(IF started THEN "Monitoring started successfully!"
                                ELSE "Monitoring stopped successfully!",
                                popup.saved, popup.domains)
         ELSE /\ storage' = storage
              /\ popup' = Shown(IF started THEN "Failed to start monitoring"
                                ELSE "Failed to stop monitoring",
                                popup.saved, popup.domains)
  /\ UNCHANGED <<isMonitoring, disabledDomains, db, nextId, backup, handlers, boot, restarts,
                 hist, dbBy, addFailed, tally, pushed, page, loads, gated, messages>>

\* what loadInitialState makes of chrome.storage.local: isMonitoring !== false
loadInitialState == StorageGet("isMonitoring") # <<FALSE>>

ControlNext ==
  \/ createIndexedDB
  \/ loadDisabledDomains
  \/ Restart
  \/ PopupStores(LongRunData(Len(db)))
  \/ \E action \in ControlActions, domain \in DomainInputs, ok \in BOOLEAN :
       Control(action, domain, ok)
  \/ \E i \in 1..MaxMessages, ok \in BOOLEAN, open \in BOOLEAN : Completed(i, ok, open)
  \/ \E action \in {"startMonitoring", "stopMonitoring"} : PopupToggle(action)
  \/ PopupToggled

ControlSpec == Init /\ [][ControlNext]_vars

\* the promises of the operations settle
FairControlSpec ==
  ControlSpec /\ WF_vars(\E i \in 1..MaxMessages, ok \in BOOLEAN, open \in BOOLEAN : Completed(i, ok, open))

(***************************************************************************)
(* C36: the debug snapshot is one consistent observation of the store: its *)
(* record count (dataCount) is the number of records the store held when   *)
(* the background read it, and its last timestamp (lastRequestTime) is     *)
(* null (or left out) when the store held no record and otherwise the      *)
(* timestamp of the record inserted last; its isMonitoring is the gate and *)
(* its disabledDomains the set of disabled domains.                        *)
(***************************************************************************)
C36_DebugInfoCountsTheStore ==
  page.logged # <<>> =>
    LET info == page.logged[1].info
        seen == page.logged[1].seen
    IN  /\ info.dataCount = Num(Len(seen))
        /\ IF seen = <<>>
           THEN Prop(info, "lastRequestTime") \in {Null, Undefined}
           ELSE Prop(info, "lastRequestTime") = seen[Len(seen)]["timestamp"]
        /\ info.isMonitoring = page.logged[1].gate
        /\ info.disabledDomains = page.logged[1].excluded

(***************************************************************************)
(* C37: every control message the listener handles gets exactly one        *)
(* response: sendResponse is called once for each known action, for an     *)
(* asynchronous action not before its operation has completed (and the     *)
(* operation does complete), and that response is what the sender gets; an *)
(* action that is not recognised is answered with success = false and      *)
(* 'Unknown action', and changes no state.                                 *)
(***************************************************************************)
C37_OneResponsePerMessage ==
  /\ [](\A i \in 1..Len(messages) :
          /\ messages[i].pc \in {"answered", "done"}
               => Len(messages[i].sent) = 1 /\ messages[i].got = messages[i].sent
          /\ messages[i].pc = "pending" => messages[i].sent = <<>> /\ messages[i].got = <<>>
          /\ messages[i].action \in AsyncActions => messages[i].pc # "answered"
          /\ messages[i].action \notin SyncActions \cup AsyncActions
               => messages[i].got = <<[success |-> FALSE, error |-> Str("Unknown action")]>>)
  /\ [][(/\ Len(messages') = Len(messages) + 1
         /\ messages'[Len(messages')].action \notin SyncActions \cup AsyncActions)
          => UNCHANGED <<isMonitoring, disabledDomains, storage, db, nextId, backup, popup>>]_vars
  /\ \A i \in 1..MaxMessages :
       (Len(messages) >= i /\ messages[i].pc = "pending" /\ messages[i].run = restarts)
         ~> (Len(messages) >= i /\ (messages[i].pc = "done" \/ messages[i].run # restarts))

(***************************************************************************)
(* C38: whenever no start or stop request of the popup is in flight, the   *)
(* monitoring state the popup has persisted and displays (isMonitoring in  *)
(* chrome.storage.local, true when absent) equals the gate of the          *)
(* background, also after the background process was started again.        *)
(***************************************************************************)
C38_PersistedMonitoringIsTheGate ==
  popup.pc \notin {"startMonitoring", "stopMonitoring"} => loadInitialState = isMonitoring

(***************************************************************************)
(* C39: loadAnalytics is mutually exclusive and always releases its guard: *)
(* at most one invocation is past the isLoading check at any time,         *)
(* isLoading is set exactly while one is, and whenever isLoading is set it *)
(* is eventually reset.                                                    *)
(***************************************************************************)
C39_LoadAnalyticsExclusiveAndReleased ==
  /\ [](Cardinality(page.runs) <= 1 /\ (page.isLoading <=> page.runs # {}))
  /\ (page.isLoading ~> ~page.isLoading)

\* a second call of loadAnalytics was made while the invocation of the
\* first call was waiting, and it is the only one in progress
C39_Witness ==
  /\ loads = 2
  /\ page.isLoading
  /\ \E r \in page.runs : r.id = 1 /\ r.pc = "exportData"

(***************************************************************************)
(* C40: sendMessageWithRetry ends after at most maxRetries attempts: it    *)
(* returns the first successful response without a further attempt; a      *)
(* failed attempt that is not the last is followed by a wait, and the      *)
(* failure of the last attempt is returned, as success = false with the    *)
(* error of that attempt; between attempt i and the next it has waited     *)
(* min(1000 * i, 5000) ms, and it never waits after the last attempt.      *)
(***************************************************************************)
C40_RetryEndsWithinMaxRetries ==
  \A r \in page.runs :
    LET call == r.call[1]
        attempts == IF call.maxRetries < 1 THEN 0 ELSE call.attempt
        \* the attempt has been answered, with a failure
        failed == call.pc # "send" /\ call.last # <<>> /\ ~call.last[1].success
        errorOf(response) ==
          IF Prop(response, "error") \in {Undefined, Str("")}
          THEN Str("Unknown error") ELSE response.error
    IN  /\ attempts <= call.maxRetries
        /\ Len(call.waits) = IF call.pc = "wait" THEN attempts
                             ELSE IF attempts = 0 THEN 0 ELSE attempts - 1
        /\ \A i \in 1..Len(call.waits) :
             call.waits[i] = IF 1000 * i < 5000 THEN 1000 * i ELSE 5000
        /\ (call.last # <<>> /\ call.last[1].success)
             => call.pc = "return" /\ call.result = call.last
        /\ (failed /\ attempts < call.maxRetries) => call.pc = "wait"
        /\ (failed /\ attempts = call.maxRetries)
             => /\ call.pc = "return"
                /\ call.result = <<[success |-> FALSE, error |-> errorOf(call.last[1])]>>
        /\ call.pc = "return" => call.result # <<>>

\* a call with maxRetries above five has failed in every attempt and has
\* returned; its last wait was the capped one
C40_Witness ==
  \E r \in page.runs :
    /\ r.pc = "returned"
    /\ r.call[1].maxRetries = MaxRetriesTried
    /\ r.call[1].attempt = MaxRetriesTried
    /\ ~r.call[1].result[1].success
    /\ r.call[1].waits[Len(r.call[1].waits)] = 5000

====
